---- MODULE Spec2Model ----
(***************************************************************************)
(* Behaviour-analysis engine of the agent evaluation framework:            *)
(*   - EvaluatorRunner   (evaluators/evaluator-runner.ts)                   *)
(*   - SessionReader / TimelineBuilder (collector/)                        *)
(*   - detectTaskType / getEvaluatorApplicability (task-type-detector.ts)  *)
(***************************************************************************)
EXTENDS Integers, Sequences, FiniteSets, TLC

VARIABLES
    \* EvaluatorRunner
    registry,        \* EvaluatorRunner.registry: evaluator names in insertion order
    pc,              \* position of the runEvaluators call in flight
    sessionId,       \* argument of the call
    evaluatorNames,  \* optional argument of the call (NoNames when absent)
    sessionInfo,     \* const sessionInfo (Null before it is read or when not found)
    timeline,        \* const timeline (Null before it is built)
    timelineBuilds,  \* number of buildTimeline calls made by the call in flight
    evaluatorsToRun, \* const evaluatorsToRun
    results,         \* const results: EvaluationResult[]
    evalLog,         \* per evaluate() call: the evaluator and the timeline it received
    returned,        \* the AggregatedResult the call resolved with (Null otherwise)
    error,           \* the error the call rejected with ("" otherwise)
    \* SessionReader / TimelineBuilder
    response,        \* what sdkClient.session.messages() gives for the session
    built,           \* whether buildTimeline has returned
    events,          \* the timeline buildTimeline returned
    \* task-type detector
    userMessage,     \* the first user message, as its lower-cased words
    sessionTimeline, \* the timeline handed to detectTaskType
    taskType,        \* what detectTaskType returned ("" before the call)
    evaluation,      \* the EvaluationResult a rule evaluator returned (Null before)
    applicability,   \* the last getEvaluatorApplicability call and its answer (Null before)
    \* evaluators
    behavior,        \* the BehaviorExpectation a BehaviorEvaluator was constructed with
    evalTimeline,    \* the timeline handed to evaluate
    now,             \* Date.now()
    evalResults,     \* the EvaluationResults of the successive evaluate calls
    \* TestRunner
    client,          \* whether TestRunner.client and eventHandler are set (start() done)
    runEvaluatorsOn, \* config.runEvaluators
    testCase,        \* the TestCase of the runTest call in flight (Null when none)
    testPc,          \* position of the runTest call in flight
    errors,          \* const errors: string[], as the kinds of the messages
    approvalsGiven,  \* let approvalsGiven
    approvedCount,   \* number of permission requests the strategy approved
    testEvaluation,  \* let evaluation: AggregatedResult | undefined (Null)
    testResult,      \* the TestResult runTest resolved with (Null before)
    \* ServerManager
    procs,           \* the child processes spawned so far, by their state
    process,         \* ServerManager.process: index into procs, 0 for null
    isRunning,       \* ServerManager.isRunning
    startCalls,      \* the start() calls made so far
    stopCalls        \* the stop() calls made so far

runnerVars == <<registry, pc, sessionId, evaluatorNames, sessionInfo, timeline,
                timelineBuilds, evaluatorsToRun, results, evalLog, returned, error>>

timelineVars == <<response, built, events>>

detectorVars == <<userMessage, sessionTimeline, taskType, evaluation, applicability>>

evaluatorVars == <<behavior, evalTimeline, now, evalResults>>

testVars == <<client, runEvaluatorsOn, testCase, testPc, errors, approvalsGiven,
              approvedCount, testEvaluation, testResult>>

serverVars == <<procs, process, isRunning, startCalls, stopCalls>>

vars == <<runnerVars, timelineVars, detectorVars, evaluatorVars, testVars, serverVars>>

\* what the steps of one component leave alone
outsideRunner == <<timelineVars, detectorVars, evaluatorVars, testVars, serverVars>>
outsideTimeline == <<runnerVars, detectorVars, evaluatorVars, testVars, serverVars>>
outsideDetector == <<runnerVars, timelineVars, evaluatorVars, testVars, serverVars>>
outsideEvaluators == <<runnerVars, timelineVars, detectorVars, testVars, serverVars>>
outsideServer == <<runnerVars, timelineVars, detectorVars, evaluatorVars, testVars>>

\* null / undefined where a record is expected
Null == [null |-> TRUE]

\* a TestRunner that was constructed and never started
TestRunnerIdle ==
    /\ client = FALSE
    /\ runEvaluatorsOn = TRUE
    /\ testCase = Null
    /\ testPc = "idle"
    /\ errors = <<>>
    /\ approvalsGiven = 0
    /\ approvedCount = 0
    /\ testEvaluation = Null
    /\ testResult = Null

\* a ServerManager that was constructed and never started
ServerIdle ==
    /\ procs = <<>>
    /\ process = 0
    /\ isRunning = FALSE
    /\ startCalls = <<>>
    /\ stopCalls = <<>>

HarnessIdle == TestRunnerIdle /\ ServerIdle

----------------------------------------------------------------------------
(* Generic helpers                                                          *)

RECURSIVE SumSeq(_)
SumSeq(s) == IF s = <<>> THEN 0 ELSE Head(s) + SumSeq(Tail(s))

RECURSIVE Concat(_)
\* [].push(...a, ...b, ...) over a sequence of sequences
Concat(ss) == IF ss = <<>> THEN <<>> ELSE Head(ss) \o Concat(Tail(ss))

SeqsUpTo(S, n) == UNION {[1..k -> S] : k \in 0..n}

InSeq(x, s) == \E i \in DOMAIN s : s[i] = x

\* Math.round of the quotient num / den of two non-negative integers, den > 0:
\* the nearest integer, a tie going up.
MathFloorDiv(num, den) == num \div den
MathRound(num, den) == (2 * num + den) \div (2 * den)

----------------------------------------------------------------------------
(* SessionReader.getMessagesWithParts and TimelineBuilder                   *)

\* messages in a transcript, and parts in a transcript
MaxMessages == 2
MaxParts == 2

MessageTimes == {1, 2}
PartTimes == {0, 1, 2}
MsgIds == <<"msg_1", "msg_2", "msg_3", "msg_4", "msg_5">>
PartIds == <<"prt_1", "prt_2", "prt_3", "prt_4", "prt_5">>

\* a part without time (Part.time is optional)
NoTime == -1

Roles == {"user", "assistant"}
PartTypes == {"text", "tool", "patch", "reasoning", "step-start", "step-finish", "file"}
RecognizedPartTypes == {"tool", "patch", "reasoning", "text"}

Message(id, role, created) == [id |-> id, role |-> role, created |-> created]
Part(id, type, created, tool) == [id |-> id, type |-> type, created |-> created, tool |-> tool]

\* what sdkClient.session.messages() can give the reader
SdkUnavailable == [kind |-> "no-client", data |-> <<>>]
SdkThrows == [kind |-> "throws", data |-> <<>>]
SdkNoData == [kind |-> "no-data", data |-> <<>>]
SdkData(ms) == [kind |-> "data", data |-> ms]

\* SessionReader.getMessagesWithParts: the SDK's messages with parts defaulted to
\* [], and [] when there is no client, the call throws or the resp has no data
getMessagesWithParts(resp) ==
    IF resp.kind = "data"
    THEN [i \in DOMAIN resp.data |->
            [info |-> resp.data[i].info,
             parts |-> IF resp.data[i].hasParts THEN resp.data[i].parts ELSE <<>>]]
    ELSE <<>>

\* TimelineBuilder.createMessageEvent
createMessageEvent(message, parts) ==
    [timestamp |-> message.created,
     type |-> IF message.role = "user" THEN "user_message" ELSE "assistant_message",
     messageId |-> message.id,
     partId |-> "",
     tool |-> ""]

\* part.time?.created || message.time.created (0 is falsy)
partTimestamp(part, message) ==
    IF part.created = NoTime \/ part.created = 0 THEN message.created ELSE part.created

createPartEventAnyType(part, message) ==
    <<[timestamp |-> partTimestamp(part, message),
       type |-> IF part.type = "tool" THEN "tool_call" ELSE part.type,
       messageId |-> message.id,
       partId |-> part.id,
       tool |-> part.tool]>>

\* TimelineBuilder.createPartEvent: <<event>>, or << >> for the null it returns on
\* the part types it skips
createPartEvent(part, message) ==
    IF part.type \in {"tool", "patch", "reasoning", "text"}
    THEN <<[timestamp |-> partTimestamp(part, message),
            type |-> IF part.type = "tool" THEN "tool_call" ELSE part.type,
            messageId |-> message.id,
            partId |-> part.id,
            tool |-> part.tool]>>
    ELSE <<>>

RECURSIVE InsertAfterEqual(_, _)
\* place e behind every element that does not compare greater than it
InsertAfterEqual(e, sorted) ==
    IF sorted = <<>> THEN <<e>>
    ELSE IF Head(sorted).timestamp - e.timestamp <= 0
         THEN <<Head(sorted)>> \o InsertAfterEqual(e, Tail(sorted))
         ELSE <<e>> \o sorted

RECURSIVE InsertBeforeEqual(_, _)
InsertBeforeEqual(e, sorted) ==
    IF sorted = <<>> THEN <<e>>
    ELSE IF Head(sorted).timestamp - e.timestamp < 0
         THEN <<Head(sorted)>> \o InsertBeforeEqual(e, Tail(sorted))
         ELSE <<e>> \o sorted

RECURSIVE sortByTimestampUnstable(_)
sortByTimestampUnstable(evs) ==
    IF evs = <<>> THEN <<>>
    ELSE InsertBeforeEqual(evs[Len(evs)],
                           sortByTimestampUnstable(SubSeq(evs, 1, Len(evs) - 1)))

sortByTimestampSkipped(evs) == evs

RECURSIVE sortByTimestamp(_)
\* events.sort((a, b) => a.timestamp - b.timestamp): Array.prototype.sort is
\* stable, elements that compare equal keep their order
sortByTimestamp(evs) ==
    IF evs = <<>> THEN <<>>
    ELSE InsertAfterEqual(evs[Len(evs)],
                          sortByTimestamp(SubSeq(evs, 1, Len(evs) - 1)))

\* the events pushed for one message: its own event, then its parts' events
messageEvents(msgWithParts) ==
    <<createMessageEvent(msgWithParts.info, msgWithParts.parts)>>
    \o Concat([j \in DOMAIN msgWithParts.parts |->
                  createPartEvent(msgWithParts.parts[j], msgWithParts.info)])

\* TimelineBuilder.buildTimeline on what the reader returned
buildTimeline(messagesWithParts) ==
    sortByTimestamp(Concat([i \in DOMAIN messagesWithParts |->
                               messageEvents(messagesWithParts[i])]))

\* the parts a transcript holds, in declaration order
TranscriptParts(data) == Concat([i \in DOMAIN data |-> data[i].parts])

\* the shapes of part the transcripts are drawn from: every type without a time of
\* its own, and a recognized and a skipped type with each time
PartShapes ==
    {[type |-> t, created |-> NoTime] : t \in PartTypes}
    \cup {[type |-> t, created |-> c] : t \in {"tool", "file"}, c \in PartTimes}

TimelineInit ==
    /\ response \in {SdkData(<<>>), SdkUnavailable, SdkThrows, SdkNoData}
    /\ built = FALSE
    /\ events = <<>>

\* the session gains a message (the first from the user, the rest from the agent)
AddMessage(created, hasParts) ==
    /\ ~built
    /\ response.kind = "data"
    /\ Len(response.data) < MaxMessages
    /\ LET n == Len(response.data) + 1
       IN  response' = SdkData(Append(response.data,
               [info |-> Message(MsgIds[n], IF n = 1 THEN "user" ELSE "assistant", created),
                hasParts |-> hasParts,
                parts |-> <<>>]))
    /\ UNCHANGED <<built, events>>
    /\ UNCHANGED outsideTimeline

\* the last message of the session gains a part
AddPart(shape) ==
    /\ ~built
    /\ response.kind = "data"
    /\ Len(response.data) > 0
    /\ response.data[Len(response.data)].hasParts
    /\ Len(TranscriptParts(response.data)) < MaxParts
    /\ LET n == Len(response.data)
           k == Len(TranscriptParts(response.data)) + 1
       IN  response' = SdkData([response.data EXCEPT ![n].parts =
               Append(@, Part(PartIds[k], shape.type, shape.created,
                              IF shape.type = "tool" THEN "read" ELSE ""))])
    /\ UNCHANGED <<built, events>>
    /\ UNCHANGED outsideTimeline

\* buildTimeline(sessionId) is called and returns
BuildTimeline ==
    /\ ~built
    /\ built' = TRUE
    /\ events' = buildTimeline(getMessagesWithParts(response))
    /\ UNCHANGED response
    /\ UNCHANGED outsideTimeline

TimelineIdle ==
    /\ response = SdkUnavailable
    /\ built = FALSE
    /\ events = <<>>

----------------------------------------------------------------------------
(* detectTaskType and getEvaluatorApplicability                             *)

\* words in the first user message, and distinct tools in a session
MaxWords == 3
MaxTools == 2

TaskTypes == {"conversational", "read-only", "bash-only", "delegation", "code", "docs",
              "tests", "review", "create-new-file", "modify-existing-file", "delete-file",
              "unknown"}

\* A message is its lower-cased words, separated by single blanks. /\b(w1|w2)\b/
\* matches when one of the words is w1 or w2.
HasWord(msg, words) == \E i \in DOMAIN msg : msg[i] \in words

WordAt(msg, i, words) == i \in DOMAIN msg /\ msg[i] \in words

\* (tests?|specs?|unit tests?|integration tests?)\b starting at word i
TestNounAt(msg, i) ==
    \/ WordAt(msg, i, {"test", "tests", "spec", "specs"})
    \/ WordAt(msg, i, {"unit", "integration"}) /\ WordAt(msg, i + 1, {"test", "tests"})

\* /\b(write|create|add|implement|generate)\s+(?:a\s+|an\s+|some\s+|new\s+)?
\*  (tests?|specs?|unit tests?|integration tests?)\b/i
\* || /\b(jest|vitest|mocha|pytest|unittest)\b/i
MatchesTests(msg) ==
    \/ \E i \in DOMAIN msg :
          /\ msg[i] \in {"write", "create", "add", "implement", "generate"}
          /\ \/ TestNounAt(msg, i + 1)
             \/ WordAt(msg, i + 1, {"a", "an", "some", "new"}) /\ TestNounAt(msg, i + 2)
    \/ HasWord(msg, {"jest", "vitest", "mocha", "pytest", "unittest"})

MatchesDocs(msg) ==
    HasWord(msg, {"document", "documentation", "readme", "docs", "jsdoc", "tsdoc", "docstring"})

MatchesReview(msg) == HasWord(msg, {"review", "audit", "check", "analyze", "inspect"})

MatchesCodeNoun(msg) ==
    HasWord(msg, {"function", "class", "component", "method", "module", "interface",
                  "type", "enum"})

createKeywords(msg) == HasWord(msg, {"create", "new", "add", "make", "generate", "write"})

modifyKeywords(msg) ==
    HasWord(msg, {"modify", "update", "change", "edit", "fix", "existing", "current"})

fileKeywords(msg) == HasWord(msg, {"file", "directory", "folder"})

MatchesGenericCode(msg) ==
    HasWord(msg, {"implement", "build", "develop", "code", "refactor", "fix"})

MatchesDelete(msg) == HasWord(msg, {"delete", "remove", "rm"})

readTools == {"read", "glob", "grep", "list"}
executionTools == {"write", "edit", "bash", "task"}

\* timeline.filter(e => e.type === 'tool_call').map(t => t.data?.tool).filter(Boolean)
toolsOf(tl) == {tl[i].tool : i \in {j \in DOMAIN tl : tl[j].type = "tool_call" /\ tl[j].tool # ""}}

detectTaskTypeCreateFirst(msg, tl) ==
    LET tools == toolsOf(tl)
    IN  IF "task" \in tools THEN "delegation"
        ELSE IF tools # {} /\ tools \subseteq readTools /\ tools \cap executionTools = {}
             THEN "read-only"
        ELSE IF "bash" \in tools /\ "write" \notin tools /\ "edit" \notin tools /\ tools # {}
             THEN "bash-only"
        ELSE IF MatchesTests(msg) THEN "tests"
        ELSE IF MatchesDocs(msg) THEN "docs"
        ELSE IF MatchesReview(msg) THEN "review"
        ELSE IF createKeywords(msg) /\ ~modifyKeywords(msg) /\ fileKeywords(msg)
                /\ "write" \in tools
             THEN "create-new-file"
        ELSE IF MatchesCodeNoun(msg) THEN "code"
        ELSE IF MatchesGenericCode(msg) THEN "code"
        ELSE IF modifyKeywords(msg) /\ ("write" \in tools \/ "edit" \in tools)
             THEN "modify-existing-file"
        ELSE IF MatchesDelete(msg) THEN "delete-file"
        ELSE IF tools = {} THEN "conversational"
        ELSE "unknown"

\* detectTaskType(userMessage, timeline)
detectTaskType(msg, tl) ==
    LET tools == toolsOf(tl)
    IN  IF "task" \in tools THEN "delegation"
        ELSE IF tools # {} /\ tools \subseteq readTools /\ tools \cap executionTools = {}
             THEN "read-only"
        ELSE IF "bash" \in tools /\ "write" \notin tools /\ "edit" \notin tools /\ tools # {}
             THEN "bash-only"
        ELSE IF MatchesTests(msg) THEN "tests"
        ELSE IF MatchesDocs(msg) THEN "docs"
        ELSE IF MatchesReview(msg) THEN "review"
        ELSE IF MatchesCodeNoun(msg) THEN "code"
        ELSE IF createKeywords(msg) /\ ~modifyKeywords(msg) /\ fileKeywords(msg)
                /\ "write" \in tools
             THEN "create-new-file"
        ELSE IF MatchesGenericCode(msg) THEN "code"
        ELSE IF modifyKeywords(msg) /\ ("write" \in tools \/ "edit" \in tools)
             THEN "modify-existing-file"
        ELSE IF MatchesDelete(msg) THEN "delete-file"
        ELSE IF tools = {} THEN "conversational"
        ELSE "unknown"

\* the words first user messages are made of: for each keyword list one of its
\* words, "fix" that is on two lists, an article and a word on no list
Vocabulary == {"create", "fix", "update", "file", "function", "review", "docs", "tests",
               "jest", "delete", "a"}

\* the tools sessions invoke, in the order they are first called
ToolOrder == <<"read", "grep", "write", "edit", "bash", "task", "webfetch">>

ToolCall(tool, t) ==
    [timestamp |-> t, type |-> "tool_call", messageId |-> "msg_2", partId |-> PartIds[1],
     tool |-> tool]

RECURSIVE ToolCalls(_, _)
\* one tool call for each index of ToolOrder in chosen, in that order
ToolCalls(chosen, from) ==
    IF from > Len(ToolOrder) THEN <<>>
    ELSE IF from \in chosen
         THEN <<ToolCall(ToolOrder[from], 2 + from)>> \o ToolCalls(chosen, from + 1)
         ELSE ToolCalls(chosen, from + 1)

\* a session's timeline: the user's message, the agent's message and its tool calls
SessionTimeline(chosen) ==
    <<createMessageEvent(Message("msg_1", "user", 1), <<>>),
      createMessageEvent(Message("msg_2", "assistant", 2), <<>>)>>
    \o ToolCalls(chosen, 1)

\* const matrix: for each evaluator, the task types its row marks
\* { applicable: false }; every row lists all twelve task types
inapplicable ==
    ("approval-gate" :> {"read-only", "conversational"})
    @@ ("context-loading" :> {"create-new-file", "delete-file", "read-only", "bash-only",
                              "conversational"})
    @@ ("execution-balance" :> {"create-new-file", "delete-file", "read-only", "bash-only",
                                "delegation", "conversational"})
    @@ ("tool-usage" :> {"conversational"})
    @@ ("delegation" :> {"create-new-file", "modify-existing-file", "delete-file",
                         "read-only", "bash-only", "conversational", "code", "docs",
                         "tests"})
    @@ ("stop-on-failure" :> {"conversational"})
    @@ ("behavior" :> {})

matrixContextForBashOnly ==
    [name \in DOMAIN inapplicable |->
        [t \in TaskTypes |->
            [applicable |-> \/ t \notin inapplicable[name]
                            \/ name = "context-loading" /\ t = "bash-only"]]]

matrixApprovalGateSkipsBashOnly ==
    [name \in DOMAIN inapplicable |->
        [t \in TaskTypes |->
            [applicable |-> /\ t \notin inapplicable[name]
                            /\ ~(name = "approval-gate" /\ t = "bash-only")]]]

matrixContextLoadingSkipsCode ==
    [name \in DOMAIN inapplicable |->
        [t \in TaskTypes |->
            [applicable |-> /\ t \notin inapplicable[name]
                            /\ ~(name = "context-loading" /\ t = "code")]]]

matrixStopOnFailureSkipsCode ==
    [name \in DOMAIN inapplicable |->
        [t \in TaskTypes |->
            [applicable |-> /\ t \notin inapplicable[name]
                            /\ ~(name = "stop-on-failure" /\ t = "code")]]]

matrixToolUsageSkipsBashOnly ==
    [name \in DOMAIN inapplicable |->
        [t \in TaskTypes |->
            [applicable |-> /\ t \notin inapplicable[name]
                            /\ ~(name = "tool-usage" /\ t = "bash-only")]]]

matrix ==
    [name \in DOMAIN inapplicable |->
        [t \in TaskTypes |-> [applicable |-> t \notin inapplicable[name]]]]

getEvaluatorApplicabilityAlwaysApplicable(evaluatorName, t) == [applicable |-> TRUE]

\* getEvaluatorApplicability(evaluatorName, taskType)
getEvaluatorApplicability(evaluatorName, t) ==
    IF evaluatorName \notin DOMAIN matrix THEN [applicable |-> TRUE]
    ELSE IF t \in DOMAIN matrix[evaluatorName] THEN matrix[evaluatorName][t]
    ELSE [applicable |-> TRUE]

DetectorInit ==
    /\ userMessage \in SeqsUpTo(Vocabulary, MaxWords)
    /\ \E chosen \in SUBSET DOMAIN ToolOrder :
          /\ Cardinality(chosen) <= MaxTools
          /\ sessionTimeline = SessionTimeline(chosen)
    /\ taskType = ""
    /\ evaluation = Null
    /\ applicability = Null

DetectorIdle ==
    /\ userMessage = <<>>
    /\ sessionTimeline = <<>>
    /\ taskType = ""
    /\ evaluation = Null
    /\ applicability = Null

EvaluatorsIdle ==
    /\ behavior = Null
    /\ evalTimeline = <<>>
    /\ now = 0
    /\ evalResults = <<>>

\* an evaluator calls detectTaskType(userMessage, timeline)
DetectTaskType ==
    /\ taskType = ""
    /\ taskType' = detectTaskType(userMessage, sessionTimeline)
    /\ UNCHANGED <<userMessage, sessionTimeline, evaluation, applicability>>
    /\ UNCHANGED outsideDetector

----------------------------------------------------------------------------
(* EvaluatorRunner                                                          *)

MaxViolations == 1

\* NaN, a number no evaluator computes with and no arithmetic yields
NaN == -1

EvaluatorPool == {"approval-gate", "behavior"}
Severities == {"error", "warning", "info"}
ScoreSamples == {0, 1, 50, 100}

SessionIds == {"ses_1", "ses_missing"}
\* sessions the session store resolves
StoredSessions == {"ses_1"}

\* the optional evaluatorNames argument: absent (runAll), or a list of names
NamesAbsent == [given |-> FALSE, names |-> <<>>]
NamesGiven(l) == [given |-> TRUE, names |-> l]
NameOptions == {NamesAbsent, NamesGiven(<<>>), NamesGiven(<<"behavior">>),
                NamesGiven(<<"behavior", "approval-gate">>)}

\* the transcript the session store holds for a stored session
StoredTranscript ==
    SdkData(<<[info |-> Message("msg_1", "user", 1), hasParts |-> TRUE,
               parts |-> <<Part("prt_1", "text", NoTime, "")>>],
              [info |-> Message("msg_2", "assistant", 2), hasParts |-> TRUE,
               parts |-> <<Part("prt_2", "step-start", NoTime, ""),
                           Part("prt_3", "tool", 3, "write")>>]>>)

\* SessionReader.getSessionInfo: the metadata, or null when neither the SDK nor
\* the disk scan yields the session (every failure is caught and returns null)
getSessionInfo(sid) ==
    IF sid \in StoredSessions
    THEN [id |-> sid, title |-> "Test Session"]
    ELSE Null

\* what an evaluator's evaluate() may resolve with
Violation(name, sev) == [type |-> name, severity |-> sev]
EvaluationResults(name) ==
    [evaluator : {name},
     passed : BOOLEAN,
     score : ScoreSamples,
     violations : SeqsUpTo({Violation(name, s) : s \in Severities}, MaxViolations),
     evidence : {<<[type |-> name]>>}]

CountSeverity(vs, sev) == Len(SelectSeq(vs, LAMBDA v : v.severity = sev))

aggregateResultsTotalErrorsOnly(sid, info, ers) ==
    LET allViolations == Concat([i \in DOMAIN ers |-> ers[i].violations])
        scores == [i \in DOMAIN ers |-> ers[i].score]
    IN  [sessionId |-> sid, sessionInfo |-> info, evaluatorResults |-> ers,
         overallPassed |-> \A i \in DOMAIN ers : ers[i].passed,
         overallScore |-> IF Len(ers) > 0 THEN MathRound(SumSeq(scores), Len(ers)) ELSE 100,
         totalViolations |-> CountSeverity(allViolations, "error"),
         violationsBySeverity |-> [s \in Severities |-> CountSeverity(allViolations, s)],
         allViolations |-> allViolations,
         allEvidence |-> Concat([i \in DOMAIN ers |-> ers[i].evidence])]

aggregateResultsAnyPassed(sid, info, ers) ==
    LET allViolations == Concat([i \in DOMAIN ers |-> ers[i].violations])
        scores == [i \in DOMAIN ers |-> ers[i].score]
    IN  [sessionId |-> sid, sessionInfo |-> info, evaluatorResults |-> ers,
         overallPassed |-> \E i \in DOMAIN ers : ers[i].passed,
         overallScore |-> IF Len(ers) > 0 THEN MathRound(SumSeq(scores), Len(ers)) ELSE 100,
         totalViolations |-> Len(allViolations),
         violationsBySeverity |-> [s \in Severities |-> CountSeverity(allViolations, s)],
         allViolations |-> allViolations,
         allEvidence |-> Concat([i \in DOMAIN ers |-> ers[i].evidence])]

aggregateResultsFloor(sid, info, ers) ==
    LET allViolations == Concat([i \in DOMAIN ers |-> ers[i].violations])
        scores == [i \in DOMAIN ers |-> ers[i].score]
    IN  [sessionId |-> sid, sessionInfo |-> info, evaluatorResults |-> ers,
         overallPassed |-> \A i \in DOMAIN ers : ers[i].passed,
         overallScore |-> IF Len(ers) > 0 THEN MathFloorDiv(SumSeq(scores), Len(ers)) ELSE 100,
         totalViolations |-> Len(allViolations),
         violationsBySeverity |-> [s \in Severities |-> CountSeverity(allViolations, s)],
         allViolations |-> allViolations,
         allEvidence |-> Concat([i \in DOMAIN ers |-> ers[i].evidence])]

\* a property the object does not have reads as undefined
Lacks(object, field) == field \notin DOMAIN object

\* allViolations.push(...result.violations) and allEvidence.push(...result.evidence)
\* throw a TypeError when the list is undefined
aggregateResultsThrows(ers) ==
    \E i \in DOMAIN ers : Lacks(ers[i], "violations") \/ Lacks(ers[i], "evidence")

\* EvaluatorRunner.aggregateResults (the timestamp Date.now() is left out); the
\* sum of the scores is NaN as soon as one score is undefined, and
\* Math.round(NaN) is NaN
aggregateResults(sid, info, ers) ==
    LET allViolations == Concat([i \in DOMAIN ers |-> ers[i].violations])
        scores == [i \in DOMAIN ers |-> ers[i].score]
    IN  [sessionId |-> sid, sessionInfo |-> info, evaluatorResults |-> ers,
         overallPassed |-> \A i \in DOMAIN ers : ers[i].passed,
         overallScore |-> IF \E i \in DOMAIN ers : Lacks(ers[i], "score") THEN NaN
                          ELSE IF Len(ers) > 0 THEN MathRound(SumSeq(scores), Len(ers))
                          ELSE 100,
         totalViolations |-> Len(allViolations),
         violationsBySeverity |-> [s \in Severities |-> CountSeverity(allViolations, s)],
         allViolations |-> allViolations,
         allEvidence |-> Concat([i \in DOMAIN ers |-> ers[i].evidence])]


\* register(evaluator): this.registry[evaluator.name] = evaluator
register(reg, name) == IF InSeq(name, reg) THEN reg ELSE Append(reg, name)

\* unregister(evaluatorName): delete this.registry[evaluatorName]
unregister(reg, name) == SelectSeq(reg, LAMBDA n : n # name)

\* evaluatorNames ? evaluatorNames.map(name => this.registry[name]).filter(Boolean)
\*                : this.getEvaluators()
selectEvaluators(reg, names) ==
    IF names.given THEN SelectSeq(names.names, LAMBDA n : InSeq(n, reg)) ELSE reg

RunnerInit ==
    /\ registry \in {<<>>, <<"approval-gate">>}
    /\ pc = "idle"
    /\ sessionId = ""
    /\ evaluatorNames = NamesAbsent
    /\ sessionInfo = Null
    /\ timeline = Null
    /\ timelineBuilds = 0
    /\ evaluatorsToRun = <<>>
    /\ results = <<>>
    /\ evalLog = <<>>
    /\ returned = Null
    /\ error = ""

RunnerIdle ==
    /\ registry = <<>>
    /\ pc = "idle"
    /\ sessionId = ""
    /\ evaluatorNames = NamesAbsent
    /\ sessionInfo = Null
    /\ timeline = Null
    /\ timelineBuilds = 0
    /\ evaluatorsToRun = <<>>
    /\ results = <<>>
    /\ evalLog = <<>>
    /\ returned = Null
    /\ error = ""

Register(name) ==
    /\ registry' = register(registry, name)
    /\ UNCHANGED <<pc, sessionId, evaluatorNames, sessionInfo, timeline, timelineBuilds,
                   evaluatorsToRun, results, evalLog, returned, error>>
    /\ UNCHANGED outsideRunner

Unregister(name) ==
    /\ registry' = unregister(registry, name)
    /\ UNCHANGED <<pc, sessionId, evaluatorNames, sessionInfo, timeline, timelineBuilds,
                   evaluatorsToRun, results, evalLog, returned, error>>
    /\ UNCHANGED outsideRunner

\* a caller invokes runEvaluators(sid, names) / runAll(sid)
RunEvaluators(sid, names) ==
    /\ pc \in {"idle", "resolved", "rejected"}
    /\ pc' = "getSessionInfo"
    /\ sessionId' = sid
    /\ evaluatorNames' = names
    /\ sessionInfo' = Null
    /\ timeline' = Null
    /\ timelineBuilds' = 0
    /\ evaluatorsToRun' = <<>>
    /\ results' = <<>>
    /\ evalLog' = <<>>
    /\ returned' = Null
    /\ error' = ""
    /\ UNCHANGED registry
    /\ UNCHANGED outsideRunner

BuildBeforeSessionCheck ==
    /\ pc = "getSessionInfo"
    /\ sessionInfo' = getSessionInfo(sessionId)
    /\ timelineBuilds' = timelineBuilds + 1
    /\ timeline' = [build |-> timelineBuilds + 1,
                    events |-> buildTimeline(getMessagesWithParts(
                        IF sessionId \in StoredSessions THEN StoredTranscript ELSE SdkNoData))]
    /\ IF sessionInfo' = Null
       THEN pc' = "rejected" /\ error' = "Session not found"
       ELSE pc' = "buildTimeline" /\ UNCHANGED error
    /\ UNCHANGED <<registry, sessionId, evaluatorNames, evaluatorsToRun, results,
                   evalLog, returned>>
    /\ UNCHANGED outsideRunner

\* await this.sessionReader.getSessionInfo(sessionId) resumes
SessionInfoResolved ==
    /\ pc = "getSessionInfo"
    /\ sessionInfo' = getSessionInfo(sessionId)
    /\ IF sessionInfo' = Null
       THEN pc' = "rejected" /\ error' = "Session not found"
       ELSE pc' = "buildTimeline" /\ UNCHANGED error
    /\ UNCHANGED <<registry, sessionId, evaluatorNames, timeline, timelineBuilds,
                   evaluatorsToRun, results, evalLog, returned>>
    /\ UNCHANGED outsideRunner

\* await this.timelineBuilder.buildTimeline(sessionId) resumes; the evaluators to
\* run are chosen and an empty choice throws
TimelineResolved ==
    /\ pc = "buildTimeline"
    /\ timelineBuilds' = timelineBuilds + 1
    /\ timeline' = [build |-> timelineBuilds + 1,
                    events |-> buildTimeline(getMessagesWithParts(
                        IF sessionId \in StoredSessions THEN StoredTranscript ELSE SdkNoData))]
    /\ evaluatorsToRun' = selectEvaluators(registry, evaluatorNames)
    /\ IF Len(evaluatorsToRun') = 0
       THEN pc' = "rejected" /\ error' = "No evaluators registered or specified"
       ELSE pc' = "evaluate" /\ UNCHANGED error
    /\ UNCHANGED <<registry, sessionId, evaluatorNames, sessionInfo, results, evalLog,
                   returned>>
    /\ UNCHANGED outsideRunner

EvaluateResolvedRebuilding(result) ==
    /\ pc = "evaluate"
    /\ result \in EvaluationResults(evaluatorsToRun[Len(results) + 1])
    /\ timelineBuilds' = timelineBuilds + 1
    /\ timeline' = [timeline EXCEPT !.build = timelineBuilds + 1]
    /\ evalLog' = Append(evalLog, [evaluator |-> evaluatorsToRun[Len(results) + 1],
                                   timeline |-> timeline'])
    /\ results' = Append(results, result)
    /\ IF Len(results') = Len(evaluatorsToRun)
       THEN /\ pc' = "resolved"
            /\ returned' = aggregateResults(sessionId, sessionInfo, results')
       ELSE UNCHANGED <<pc, returned>>
    /\ UNCHANGED <<registry, sessionId, evaluatorNames, sessionInfo, evaluatorsToRun, error>>
    /\ UNCHANGED outsideRunner

\* await evaluator.evaluate(timeline, sessionInfo) resumes with a result, which is
\* pushed; after the last evaluator the results are aggregated and returned
EvaluateResolved(result) ==
    /\ pc = "evaluate"
    /\ result.evaluator = evaluatorsToRun[Len(results) + 1]
    /\ evalLog' = Append(evalLog, [evaluator |-> evaluatorsToRun[Len(results) + 1],
                                   timeline |-> timeline])
    /\ results' = Append(results, result)
    /\ IF Len(results') < Len(evaluatorsToRun)
       THEN UNCHANGED <<pc, returned, error>>
       ELSE IF aggregateResultsThrows(results')
       THEN pc' = "rejected" /\ error' = "TypeError" /\ UNCHANGED returned
       ELSE /\ pc' = "resolved"
            /\ returned' = aggregateResults(sessionId, sessionInfo, results')
            /\ UNCHANGED error
    /\ UNCHANGED <<registry, sessionId, evaluatorNames, sessionInfo, timeline,
                   timelineBuilds, evaluatorsToRun>>
    /\ UNCHANGED outsideRunner

\* await evaluator.evaluate(timeline, sessionInfo) throws: nothing catches it
EvaluateRejected ==
    /\ pc = "evaluate"
    /\ evalLog' = Append(evalLog, [evaluator |-> evaluatorsToRun[Len(results) + 1],
                                   timeline |-> timeline])
    /\ pc' = "rejected"
    /\ error' = "evaluator threw"
    /\ UNCHANGED <<registry, sessionId, evaluatorNames, sessionInfo, timeline,
                   timelineBuilds, evaluatorsToRun, results, returned>>
    /\ UNCHANGED outsideRunner

Init == RunnerInit /\ TimelineIdle /\ DetectorIdle /\ EvaluatorsIdle /\ HarnessIdle

Next ==
    \/ \E name \in EvaluatorPool : Register(name)
    \/ \E name \in EvaluatorPool : Unregister(name)
    \/ \E sid \in SessionIds, names \in NameOptions : RunEvaluators(sid, names)
    \/ SessionInfoResolved
    \/ TimelineResolved
    \/ \E result \in UNION {EvaluationResults(n) : n \in EvaluatorPool} : EvaluateResolved(result)
    \/ EvaluateRejected

Spec == Init /\ [][Next]_vars

----------------------------------------------------------------------------
(* Properties of the EvaluatorRunner, under Spec                            *)

ResultScores(agg) == [i \in DOMAIN agg.evaluatorResults |-> agg.evaluatorResults[i].score]

\* C1: in every AggregatedResult returned by runAll/runEvaluators, totalViolations
\* is the sum of the lengths of the evaluator results' violations lists, and for
\* each severity violationsBySeverity counts the entries of allViolations of
\* that severity.
C1_AggregationIdentity ==
    pc = "resolved" =>
        /\ returned.totalViolations =
              SumSeq([i \in DOMAIN returned.evaluatorResults |->
                         Len(returned.evaluatorResults[i].violations)])
        /\ \A s \in Severities :
              returned.violationsBySeverity[s] =
                 Cardinality({i \in DOMAIN returned.allViolations :
                                 returned.allViolations[i].severity = s})

C1_Witness ==
    /\ pc = "resolved"
    /\ Len(returned.evaluatorResults) = 2
    /\ returned.totalViolations = 2
    /\ returned.violationsBySeverity["error"] = 1
    /\ returned.violationsBySeverity["warning"] = 1

\* C2: in every AggregatedResult, overallPassed is true exactly when every
\* evaluator result has passed = true.
C2_OverallPassedIsConjunction ==
    pc = "resolved" =>
        (returned.overallPassed = TRUE
           <=> \A i \in DOMAIN returned.evaluatorResults :
                  returned.evaluatorResults[i].passed = TRUE)

C2_Witness ==
    /\ pc = "resolved"
    /\ Len(returned.evaluatorResults) = 2
    /\ returned.evaluatorResults[1].passed
    /\ ~returned.evaluatorResults[2].passed
    /\ ~returned.overallPassed

\* C3: in every AggregatedResult, overallScore is the mean of the evaluator
\* scores rounded to the nearest integer (a tie going up, as Math.round does),
\* and it lies in 0..100 when every evaluator score does.
C3_OverallScoreIsRoundedMean ==
    pc = "resolved" =>
        LET n == Len(returned.evaluatorResults)
            total == SumSeq(ResultScores(returned))
        IN  /\ n > 0
            /\ 2 * n * returned.overallScore - n <= 2 * total
            /\ 2 * total < 2 * n * returned.overallScore + n
            /\ (\A i \in 1..n : returned.evaluatorResults[i].score \in 0..100)
                  => returned.overallScore \in 0..100

C3_Witness ==
    /\ pc = "resolved"
    /\ Len(returned.evaluatorResults) = 2
    /\ returned.evaluatorResults[1].score = 100
    /\ returned.evaluatorResults[2].score = 1
    /\ returned.overallScore = 51

C8_TimelineBuiltOnceAndShared ==
    (pc \in {"evaluate", "resolved"} \/ evalLog # <<>>) =>
        /\ timelineBuilds = 1
        /\ timeline # Null
        /\ \A i \in DOMAIN evalLog : evalLog[i].timeline = timeline

C8_Witness ==
    /\ pc = "resolved"
    /\ Len(evalLog) = 2
    /\ evalLog[1].evaluator # evalLog[2].evaluator
    /\ Len(timeline.events) > 0

----------------------------------------------------------------------------
(* The timeline builder on its own: transcripts of up to MaxMessages messages *)
(* and MaxParts parts are recorded, then buildTimeline runs                 *)

InitTimeline == RunnerIdle /\ TimelineInit /\ DetectorIdle /\ EvaluatorsIdle /\ HarnessIdle

NextTimeline ==
    \/ \E created \in MessageTimes, hasParts \in BOOLEAN : AddMessage(created, hasParts)
    \/ \E shape \in PartShapes : AddPart(shape)
    \/ BuildTimeline

SpecTimeline == InitTimeline /\ [][NextTimeline]_vars

IsPartEvent(e) == e.partId # ""
PartOrder(pid) == CHOOSE k \in DOMAIN PartIds : PartIds[k] = pid

\* C4: in every timeline buildTimeline returns, each event's timestamp is at most
\* the next event's timestamp.
C4_TimelineSortedByTimestamp ==
    built => \A i \in 1..(Len(events) - 1) : events[i].timestamp <= events[i + 1].timestamp

\* a part stamped earlier than its message, so that the pushed order is not sorted
C4_Witness ==
    /\ built
    /\ Len(events) >= 3
    /\ IsPartEvent(events[1])
    /\ \E i \in DOMAIN events :
          /\ ~IsPartEvent(events[i])
          /\ events[i].messageId = events[1].messageId
          /\ events[i].timestamp > events[1].timestamp

\* C5: in every timeline, among events that share a timestamp a message's own
\* event comes before the events of its parts, and the part events of one message
\* are in the parts' declaration order.
C5_TieBreakKeepsDeclarationOrder ==
    built =>
        \A i, j \in DOMAIN events :
            (i < j /\ events[i].timestamp = events[j].timestamp
                   /\ events[i].messageId = events[j].messageId) =>
                /\ ~(IsPartEvent(events[i]) /\ ~IsPartEvent(events[j]))
                /\ (IsPartEvent(events[i]) /\ IsPartEvent(events[j]))
                      => PartOrder(events[i].partId) < PartOrder(events[j].partId)

\* a message and two of its parts share a timestamp
C5_Witness ==
    /\ built
    /\ \E i, j, k \in DOMAIN events :
          /\ i < j /\ j < k
          /\ ~IsPartEvent(events[i]) /\ IsPartEvent(events[j]) /\ IsPartEvent(events[k])
          /\ events[i].messageId = events[j].messageId
          /\ events[i].messageId = events[k].messageId
          /\ events[i].timestamp = events[j].timestamp
          /\ events[i].timestamp = events[k].timestamp

\* C6: buildTimeline emits exactly one message-level event per input message and
\* exactly one part-level event per part of type tool, patch, reasoning or text,
\* and none for any other part; an empty or missing message list gives an empty
\* timeline.
C6_OneEventPerMessageAndRecognizedPart ==
    built =>
        LET data == IF response.kind = "data" THEN response.data ELSE <<>>
            parts == TranscriptParts(data)
            recognized == {k \in DOMAIN parts :
                              parts[k].type \in {"tool", "patch", "reasoning", "text"}}
        IN  /\ Len(events) = Len(data) + Cardinality(recognized)
            /\ \A m \in DOMAIN data :
                  Cardinality({i \in DOMAIN events :
                      ~IsPartEvent(events[i]) /\ events[i].messageId = data[m].info.id}) = 1
            /\ \A k \in DOMAIN parts :
                  Cardinality({i \in DOMAIN events : events[i].partId = parts[k].id})
                     = IF k \in recognized THEN 1 ELSE 0

\* a transcript with a recognized and a skipped part
C6_Witness ==
    /\ built
    /\ response.kind = "data"
    /\ Len(response.data) = 2
    /\ \E k \in DOMAIN TranscriptParts(response.data) :
          TranscriptParts(response.data)[k].type = "step-finish"
    /\ \E i \in DOMAIN events : events[i].type = "tool_call"
    /\ Len(events) = 3

\* the message list is missing
C6_WitnessMissingList ==
    built /\ response.kind = "no-data" /\ events = <<>>

----------------------------------------------------------------------------
(* The task-type detector on its own: first user messages of up to MaxWords   *)
(* words and sessions with up to MaxTools distinct tools                    *)

InitDetector == RunnerIdle /\ TimelineIdle /\ DetectorInit /\ EvaluatorsIdle /\ HarnessIdle

NextDetector == DetectTaskType

SpecDetector == InitDetector /\ [][NextDetector]_vars

\* the create-new-file pattern of rule 8, without its tool condition
CreateFilePattern(msg) == createKeywords(msg) /\ ~modifyKeywords(msg) /\ fileKeywords(msg)

\* The 13-rule priority list. readOnlyNeedsTool says how rule 2 reads on a session
\* that invoked no tool: FALSE is the rule as worded ("every invoked tool is a
\* read-class tool and no execution-class tool appears", true of no tools at
\* all), TRUE asks for at least one invoked tool as well.
PriorityList(msg, tools, readOnlyNeedsTool) ==
    << [label |-> "delegation", matches |-> "task" \in tools],
       [label |-> "read-only",
        matches |-> /\ \A t \in tools : t \in {"read", "glob", "grep", "list"}
                    /\ ~ \E t \in tools : t \in {"write", "edit", "bash", "task"}
                    /\ (readOnlyNeedsTool => tools # {})],
       [label |-> "bash-only",
        matches |-> "bash" \in tools /\ "write" \notin tools /\ "edit" \notin tools],
       [label |-> "tests", matches |-> MatchesTests(msg)],
       [label |-> "docs", matches |-> MatchesDocs(msg)],
       [label |-> "review", matches |-> MatchesReview(msg)],
       [label |-> "code", matches |-> MatchesCodeNoun(msg)],
       [label |-> "create-new-file",
        matches |-> CreateFilePattern(msg) /\ "write" \in tools],
       [label |-> "code", matches |-> MatchesGenericCode(msg)],
       [label |-> "modify-existing-file",
        matches |-> modifyKeywords(msg) /\ ("write" \in tools \/ "edit" \in tools)],
       [label |-> "delete-file", matches |-> MatchesDelete(msg)],
       [label |-> "conversational", matches |-> tools = {}],
       [label |-> "unknown", matches |-> TRUE] >>

FirstMatch(rules) ==
    LET first == CHOOSE i \in DOMAIN rules :
                     rules[i].matches /\ \A j \in 1..(i - 1) : ~rules[j].matches
    IN  rules[first].label

\* a request that matches a code noun and the create-file pattern is never
\* create-new-file, and is code when none of rules 1 to 6 claims it
CodeNounBeatsCreateFile(readOnlyNeedsTool) ==
    LET tools == toolsOf(sessionTimeline)
        rules == PriorityList(userMessage, tools, readOnlyNeedsTool)
    IN  (MatchesCodeNoun(userMessage) /\ CreateFilePattern(userMessage))
        => /\ taskType # "create-new-file"
           /\ (\A j \in 1..6 : ~rules[j].matches) => taskType = "code"

\* C9, as amended: for every first user message and every set of invoked tools,
\* detectTaskType returns the label of the first matching rule of the 13-rule
\* priority list, where rule 2 (read-only) matches only when at least one tool
\* was invoked; a request that matches both a code noun and the create-file
\* pattern is never create-new-file, and is code unless one of rules 1-6 matches.
C9_FirstMatchingRuleWithToolInvoked ==
    taskType # ""
    => /\ taskType = FirstMatch(PriorityList(userMessage, toolsOf(sessionTimeline), TRUE))
       /\ CodeNounBeatsCreateFile(TRUE)

\* C9, as stated: the same with rule 2 as worded, which a session without
\* tools satisfies.
C9_FirstMatchingRuleAsWorded ==
    taskType # ""
    => /\ taskType = FirstMatch(PriorityList(userMessage, toolsOf(sessionTimeline), FALSE))
       /\ CodeNounBeatsCreateFile(FALSE)

C9_Witness ==
    /\ taskType = "code"
    /\ MatchesCodeNoun(userMessage)
    /\ CreateFilePattern(userMessage)
    /\ "write" \in toolsOf(sessionTimeline)
    /\ ~MatchesGenericCode(userMessage)

----------------------------------------------------------------------------
(* Applicability gating of the rule evaluators: an evaluator is run on a    *)
(* session of each task type                                                *)

\* the evaluators that consult the applicability lookup
RuleEvaluators == {"approval-gate", "context-loading", "execution-balance", "tool-usage",
                   "delegation", "stop-on-failure"}

\* one session for each rule of detectTaskType: the first user message and the
\* indices in ToolOrder of the tools the agent invoked
SampleSessions ==
    { [text |-> <<"hello">>, tools |-> {}],
      [text |-> <<"review", "file">>, tools |-> {1, 2}],
      [text |-> <<"fix", "tests">>, tools |-> {5}],
      [text |-> <<"create", "function">>, tools |-> {3, 6}],
      [text |-> <<"create", "a", "tests">>, tools |-> {3}],
      [text |-> <<"update", "docs">>, tools |-> {4}],
      [text |-> <<"review", "function">>, tools |-> {1, 3}],
      [text |-> <<"create", "function", "file">>, tools |-> {3}],
      [text |-> <<"create", "file">>, tools |-> {3}],
      [text |-> <<"fix", "file">>, tools |-> {4}],
      [text |-> <<"update", "file">>, tools |-> {4}],
      [text |-> <<"delete", "file">>, tools |-> {3, 5}],
      [text |-> <<"hello">>, tools |-> {7}] }

\* the result of an evaluator that does not apply to the session's task type
skippedResult(name, t) ==
    [evaluator |-> name, passed |-> TRUE, score |-> 100, violations |-> <<>>,
     evidence |-> <<>>, metadata |-> [skipped |-> TRUE, taskType |-> t]]

\* evaluate(timeline, sessionInfo) of a rule evaluator: it classifies the
\* session, consults the applicability lookup and only then runs its checks,
\* whose outcome is checks
evaluate(name, msg, tl, checks) ==
    LET t == detectTaskType(msg, tl)
    IN  IF ~getEvaluatorApplicability(name, t).applicable
        THEN skippedResult(name, t)
        ELSE [evaluator |-> name, passed |-> checks.passed, score |-> checks.score,
              violations |-> checks.violations, evidence |-> checks.evidence,
              metadata |-> [skipped |-> FALSE, taskType |-> t]]

GatingInit ==
    /\ \E session \in SampleSessions :
          /\ userMessage = session.text
          /\ sessionTimeline = SessionTimeline(session.tools)
    /\ taskType = ""
    /\ evaluation = Null
    /\ applicability = Null

\* a rule evaluator evaluates the session
Evaluate(name, checks) ==
    /\ evaluation = Null
    /\ applicability = Null
    /\ taskType' = detectTaskType(userMessage, sessionTimeline)
    /\ evaluation' = evaluate(name, userMessage, sessionTimeline, checks)
    /\ UNCHANGED <<userMessage, sessionTimeline, applicability>>
    /\ UNCHANGED outsideDetector

\* the evaluator names and task types callers pass to the lookup: those of the
\* matrix, an evaluator without a row and a label without an entry
LookupNames == DOMAIN matrix \cup {"custom-evaluator"}
LookupTaskTypes == TaskTypes \cup {"refactor"}

\* a caller asks getEvaluatorApplicability(evaluatorName, taskType)
GetEvaluatorApplicability(evaluatorName, t) ==
    /\ applicability = Null
    /\ evaluation = Null
    /\ applicability' = [evaluatorName |-> evaluatorName, taskType |-> t,
                         applicable |-> getEvaluatorApplicability(evaluatorName, t).applicable]
    /\ UNCHANGED <<userMessage, sessionTimeline, taskType, evaluation>>
    /\ UNCHANGED outsideDetector

InitGating == RunnerIdle /\ TimelineIdle /\ GatingInit /\ EvaluatorsIdle /\ HarnessIdle

NextGating ==
    \/ \E name \in RuleEvaluators : \E checks \in EvaluationResults(name) :
          Evaluate(name, checks)
    \/ \E evaluatorName \in LookupNames : \E t \in LookupTaskTypes :
          GetEvaluatorApplicability(evaluatorName, t)

SpecGating == InitGating /\ [][NextGating]_vars

ContextLoadingLookup ==
    /\ applicability # Null
    /\ applicability.evaluatorName = "context-loading"
    /\ applicability.taskType \in TaskTypes

\* C11, as amended: the applicability lookup reports the context-loading
\* evaluator as applicable for exactly the task types code, docs, tests, review,
\* delegation, modify-existing-file and unknown, and as inapplicable for every
\* other task type.
C11_ContextLoadingApplicableTypesWithUnknown ==
    ContextLoadingLookup
    => (applicability.applicable
        <=> applicability.taskType \in {"code", "docs", "tests", "review", "delegation",
                                        "modify-existing-file", "unknown"})

\* C11, as stated: applicable for exactly code, docs, tests, review, delegation
\* and modify-existing-file.
C11_ContextLoadingApplicableTypes ==
    ContextLoadingLookup
    => (applicability.applicable
        <=> applicability.taskType \in {"code", "docs", "tests", "review", "delegation",
                                        "modify-existing-file"})

C11_Witness ==
    /\ ContextLoadingLookup
    /\ applicability.taskType = "bash-only"
    /\ ~applicability.applicable

----------------------------------------------------------------------------
(* Timeline events as the evaluators read them, and BaseEvaluator          *)

\* events in a timeline handed to an evaluator
MaxEvents == 2

\* event.data of a tool call: tool and state.tool are "" when null or missing,
\* input is Null when missing
ToolData(tool, stateTool, input, failed) ==
    [tool |-> tool, stateTool |-> stateTool, input |-> input, text |-> "", error |-> failed]

\* event.data of a message
TextData(text) ==
    [tool |-> "", stateTool |-> "", input |-> Null, text |-> text, error |-> FALSE]

ToolInput(filePath, command) == [filePath |-> filePath, command |-> command]

\* a TimelineEvent; tool is data?.tool, where detectTaskType reads it
TimelineEvent(type, timestamp, data) ==
    [type |-> type, timestamp |-> timestamp, data |-> data,
     tool |-> IF data = Null THEN "" ELSE data.tool]

ApprovalRequestText == "May I proceed with creating the file?"
PlainText == "I will create the file now."
FailureReportText == "The tests failed. Here is the error..."
ContextFile == ".opencode/context/core/standards/code.md"
DocsContextFile == ".opencode/context/core/standards/docs.md"
OtherFile == "src/app.ts"

\* the events timelines are made of, by kind
EventOfKind(kind, timestamp) ==
    CASE kind = "read-context" ->
           TimelineEvent("tool_call", timestamp,
                         ToolData("read", "", ToolInput(ContextFile, ""), FALSE))
      [] kind = "read-file" ->
           TimelineEvent("tool_call", timestamp,
                         ToolData("read", "", ToolInput(OtherFile, ""), FALSE))
      [] kind = "write" ->
           TimelineEvent("tool_call", timestamp,
                         ToolData("write", "", ToolInput("math.ts", ""), FALSE))
      [] kind = "bash" ->
           TimelineEvent("tool_call", timestamp,
                         ToolData("bash", "", ToolInput("", "npm install"), FALSE))
      [] kind = "bash-cat" ->
           TimelineEvent("tool_call", timestamp,
                         ToolData("bash", "", ToolInput("", "cat file.txt"), FALSE))
      [] kind = "bash-ls" ->
           TimelineEvent("tool_call", timestamp,
                         ToolData("bash", "", ToolInput("", "ls -la"), FALSE))
      [] kind = "bash-failed" ->
           TimelineEvent("tool_call", timestamp,
                         ToolData("bash", "", ToolInput("", "npm test"), TRUE))
      [] kind = "read-docs-context" ->
           TimelineEvent("tool_call", timestamp,
                         ToolData("read", "", ToolInput(DocsContextFile, ""), FALSE))
      [] kind = "list" ->
           TimelineEvent("tool_call", timestamp,
                         ToolData("list", "", ToolInput("src", ""), FALSE))
      [] kind = "null-tool" ->
           TimelineEvent("tool_call", timestamp, ToolData("", "", Null, FALSE))
      [] kind = "nan-read" ->
           TimelineEvent("tool_call", NaN,
                         ToolData("read", "", ToolInput(OtherFile, ""), FALSE))
      [] kind = "report" ->
           TimelineEvent("assistant_message", timestamp, TextData(FailureReportText))
      [] kind = "task" ->
           TimelineEvent("tool_call", timestamp, ToolData("task", "", Null, FALSE))
      [] kind = "state-tool" ->
           TimelineEvent("tool_call", timestamp, ToolData("", "edit", Null, FALSE))
      [] kind = "null-data" -> TimelineEvent("tool_call", timestamp, Null)
      [] kind = "ask" ->
           TimelineEvent("assistant_message", timestamp, TextData(ApprovalRequestText))
      [] kind = "say" ->
           TimelineEvent("assistant_message", timestamp, TextData(PlainText))
      [] kind = "user" ->
           TimelineEvent("user_message", timestamp, TextData("Yes, proceed"))

\* the timeline with events of these kinds, stamped in order
TimelineOfKinds(kinds) == [i \in DOMAIN kinds |-> EventOfKind(kinds[i], i)]

\* event.data?.tool
dataTool(event) == IF event.data = Null THEN "" ELSE event.data.tool

\* BaseEvaluator.getToolCalls(timeline)
getToolCalls(tl) == SelectSeq(tl, LAMBDA e : e.type = "tool_call")

\* BaseEvaluator.getAssistantMessages(timeline)
getAssistantMessages(tl) == SelectSeq(tl, LAMBDA e : e.type = "assistant_message")

\* BaseEvaluator.getToolCallsByName(timeline, toolName)
getToolCallsByName(tl, toolName) == SelectSeq(getToolCalls(tl), LAMBDA e : dataTool(e) = toolName)

\* BaseEvaluator.getReadTools(timeline)
getReadTools(tl) == SelectSeq(getToolCalls(tl), LAMBDA e : dataTool(e) \in readTools)

\* BaseEvaluator.containsApprovalLanguage(text)
containsApprovalLanguage(text) == text = ApprovalRequestText

\* BaseEvaluator.createViolation(type, severity, message, timestamp, evidence)
createViolation(type, severity, message, timestamp, evidence) ==
    [type |-> type, severity |-> severity, message |-> message, timestamp |-> timestamp,
     evidence |-> evidence]

\* a Check; its evidence is left out
Check(name, passed, weight) == [name |-> name, passed |-> passed, weight |-> weight]

\* score: 100 x (weights of the passing checks / all weights), 100 without checks
calculateScore(checks) ==
    LET total == SumSeq([i \in DOMAIN checks |-> checks[i].weight])
        earned == SumSeq([i \in DOMAIN checks |->
                             IF checks[i].passed THEN checks[i].weight ELSE 0])
    IN  IF total = 0 THEN 100 ELSE MathRound(100 * earned, total)

\* BaseEvaluator.buildResult(evaluator, checks, violations, evidence, metadata):
\* passed when no violation of severity error was raised
buildResult(evaluator, checks, violations, evidence, metadata) ==
    [evaluator |-> evaluator,
     passed |-> \A i \in DOMAIN violations : violations[i].severity # "error",
     score |-> calculateScore(checks),
     violations |-> violations,
     evidence |-> evidence,
     metadata |-> metadata,
     checks |-> checks]

----------------------------------------------------------------------------
(* BehaviorEvaluator                                                        *)

\* an optional list and an optional number of a BehaviorExpectation
NoList == [given |-> FALSE, list |-> <<>>]
List(l) == [given |-> TRUE, list |-> l]
NoNumber == -1

BehaviorExpectations ==
    [mustUseTools : {NoList, List(<<>>), List(<<"read", "write">>)},
     mustUseAnyOf : {NoList, List(<< <<"bash">>, <<"read", "write">> >>)},
     mustNotUseTools : {NoList, List(<<"bash", "edit">>)},
     minToolCalls : {NoNumber, 2},
     maxToolCalls : {NoNumber, 1},
     requiresApproval : BOOLEAN,
     requiresContext : BOOLEAN,
     shouldDelegate : BOOLEAN]

\* what one check of evaluate adds to checks and to violations
Outcome(checks, violations) == [checks |-> checks, violations |-> violations]
NoOutcome == Outcome(<<>>, <<>>)

\* the evidence data of a violation: the tool and the counts it is about
ViolationData(tool, expected, actual) == [tool |-> tool, expected |-> expected, actual |-> actual]

\* toolCalls.map(tc => data.tool || data.state?.tool || null).filter(t => t !== null)
toolsUsed(tl) ==
    LET toolCalls == getToolCalls(tl)
        names == [i \in DOMAIN toolCalls |->
                     IF toolCalls[i].data = Null THEN ""
                     ELSE IF toolCalls[i].data.tool # "" THEN toolCalls[i].data.tool
                     ELSE toolCalls[i].data.stateTool]
    IN  SelectSeq(names, LAMBDA t : t # "")

\* Check 1: mustUseTools
checkMustUseTools(b, tl, at) ==
    IF b.mustUseTools.given /\ Len(b.mustUseTools.list) > 0
    THEN LET missingTools == SelectSeq(b.mustUseTools.list,
                                       LAMBDA t : ~InSeq(t, toolsUsed(tl)))
         IN  Outcome(<<Check("must-use-tools", missingTools = <<>>, 100)>>,
                     [i \in DOMAIN missingTools |->
                         createViolation("missing-required-tool", "error",
                                         <<"Required tool was not used", missingTools[i]>>,
                                         at, ViolationData(missingTools[i], -1, -1))])
    ELSE NoOutcome

\* Check 1b: mustUseAnyOf
checkMustUseAnyOf(b, tl, at) ==
    IF b.mustUseAnyOf.given /\ Len(b.mustUseAnyOf.list) > 0
    THEN LET satisfiedSets ==
                 SelectSeq(b.mustUseAnyOf.list,
                           LAMBDA toolSet : \A i \in DOMAIN toolSet :
                                                InSeq(toolSet[i], toolsUsed(tl)))
             passed == Len(satisfiedSets) > 0
         IN  Outcome(<<Check("must-use-any-of", passed, 100)>>,
                     IF passed THEN <<>>
                     ELSE <<createViolation("missing-required-tool-set", "error",
                                            <<"None of the required tool sets were fully used", "">>,
                                            at, ViolationData("", -1, -1))>>)
    ELSE NoOutcome

checkMustNotUseToolsFirstOnly(b, tl, at) ==
    IF b.mustNotUseTools.given /\ Len(b.mustNotUseTools.list) > 0
    THEN LET forbiddenToolsUsed == SelectSeq(b.mustNotUseTools.list,
                                             LAMBDA t : InSeq(t, toolsUsed(tl)))
         IN  Outcome(<<Check("must-not-use-tools", forbiddenToolsUsed = <<>>, 100)>>,
                     IF forbiddenToolsUsed = <<>> THEN <<>>
                     ELSE <<createViolation("forbidden-tool-used", "error",
                                            <<"Forbidden tool was used", forbiddenToolsUsed[1]>>,
                                            at, ViolationData(forbiddenToolsUsed[1], -1, -1))>>)
    ELSE NoOutcome

\* Check 2: mustNotUseTools
checkMustNotUseTools(b, tl, at) ==
    IF b.mustNotUseTools.given /\ Len(b.mustNotUseTools.list) > 0
    THEN LET forbiddenToolsUsed == SelectSeq(b.mustNotUseTools.list,
                                             LAMBDA t : InSeq(t, toolsUsed(tl)))
         IN  Outcome(<<Check("must-not-use-tools", forbiddenToolsUsed = <<>>, 100)>>,
                     [i \in DOMAIN forbiddenToolsUsed |->
                         createViolation("forbidden-tool-used", "error",
                                         <<"Forbidden tool was used", forbiddenToolsUsed[i]>>,
                                         at, ViolationData(forbiddenToolsUsed[i], -1, -1))])
    ELSE NoOutcome

\* Check 3: minToolCalls
checkMinToolCalls(b, tl, at) ==
    IF b.minToolCalls # NoNumber
    THEN LET passed == Len(getToolCalls(tl)) >= b.minToolCalls
         IN  Outcome(<<Check("min-tool-calls", passed, 50)>>,
                     IF passed THEN <<>>
                     ELSE <<createViolation("insufficient-tool-calls", "error",
                                            <<"Expected at least that many tool calls", "">>,
                                            at, ViolationData("", b.minToolCalls,
                                                              Len(getToolCalls(tl))))>>)
    ELSE NoOutcome

checkMaxToolCallsOnFailureOnly(b, tl, at) ==
    IF b.maxToolCalls # NoNumber /\ Len(getToolCalls(tl)) > b.maxToolCalls
    THEN Outcome(<<Check("max-tool-calls", FALSE, 50)>>,
                 <<createViolation("excessive-tool-calls", "warning",
                                   <<"Expected at most that many tool calls", "">>,
                                   at, ViolationData("", b.maxToolCalls,
                                                     Len(getToolCalls(tl))))>>)
    ELSE NoOutcome

checkMaxToolCallsAsMinimum(b, tl, at) ==
    IF b.maxToolCalls # NoNumber
    THEN LET passed == Len(getToolCalls(tl)) >= b.maxToolCalls
         IN  Outcome(<<Check("max-tool-calls", passed, 50)>>,
                     IF passed THEN <<>>
                     ELSE <<createViolation("excessive-tool-calls", "warning",
                                            <<"Expected at most that many tool calls", "">>,
                                            at, ViolationData("", b.maxToolCalls,
                                                              Len(getToolCalls(tl))))>>)
    ELSE NoOutcome

\* Check 4: maxToolCalls
checkMaxToolCalls(b, tl, at) ==
    IF b.maxToolCalls # NoNumber
    THEN LET passed == Len(getToolCalls(tl)) <= b.maxToolCalls
         IN  Outcome(<<Check("max-tool-calls", passed, 50)>>,
                     IF passed THEN <<>>
                     ELSE <<createViolation("excessive-tool-calls", "warning",
                                            <<"Expected at most that many tool calls", "">>,
                                            at, ViolationData("", b.maxToolCalls,
                                                              Len(getToolCalls(tl))))>>)
    ELSE NoOutcome

\* Check 5: requiresApproval
checkRequiresApproval(b, tl, at) ==
    IF b.requiresApproval
    THEN LET assistantMessages == getAssistantMessages(tl)
             hasApprovalRequest ==
                 \E i \in DOMAIN assistantMessages :
                     containsApprovalLanguage(IF assistantMessages[i].data = Null THEN ""
                                              ELSE assistantMessages[i].data.text)
         IN  Outcome(<<Check("requires-approval", hasApprovalRequest, 100)>>,
                     IF hasApprovalRequest THEN <<>>
                     ELSE <<createViolation("missing-approval-request", "error",
                                            <<"Agent did not request approval before executing", "">>,
                                            at, ViolationData("", -1, -1))>>)
    ELSE NoOutcome

\* rt.data?.state?.input?.filePath || rt.data?.input?.filePath || rt.data?.input?.path || ''
inputFilePath(event) ==
    IF event.data = Null THEN ""
    ELSE IF event.data.input = Null THEN ""
    ELSE event.data.input.filePath

\* contextPatterns.some(pattern => pattern.test(filePath))
matchesContextPatterns(filePath) == filePath \in {ContextFile, DocsContextFile}

\* Check 6: requiresContext
checkRequiresContext(b, tl, at) ==
    IF b.requiresContext
    THEN LET contextReads == SelectSeq(getReadTools(tl),
                                       LAMBDA rt : matchesContextPatterns(inputFilePath(rt)))
             hasContextLoading == Len(contextReads) > 0
         IN  Outcome(<<Check("requires-context", hasContextLoading, 100)>>,
                     IF hasContextLoading THEN <<>>
                     ELSE <<createViolation("missing-context-loading", "error",
                                            <<"Agent did not load required context files", "">>,
                                            at, ViolationData("", -1, -1))>>)
    ELSE NoOutcome

\* Check 7: shouldDelegate
checkShouldDelegate(b, tl, at) ==
    IF b.shouldDelegate
    THEN LET hasDelegation == Len(getToolCallsByName(tl, "task")) > 0
         IN  Outcome(<<Check("should-delegate", hasDelegation, 75)>>,
                     IF hasDelegation THEN <<>>
                     ELSE <<createViolation("missing-delegation", "warning",
                                            <<"Agent should have delegated to a subagent", "">>,
                                            at, ViolationData("", -1, -1))>>)
    ELSE NoOutcome

\* the checks of evaluate, in the order they run
behaviorOutcomes(b, tl, at) ==
    << checkMustUseTools(b, tl, at), checkMustUseAnyOf(b, tl, at),
       checkMustNotUseTools(b, tl, at), checkMinToolCalls(b, tl, at),
       checkMaxToolCalls(b, tl, at), checkRequiresApproval(b, tl, at),
       checkRequiresContext(b, tl, at), checkShouldDelegate(b, tl, at) >>

\* the outcome of an evaluate that threw instead of returning a result
Thrown == [thrown |-> TRUE]

\* reading a property of null or undefined throws a TypeError
readThrows(object) == object = Null

toolsUsedThrowsUnguarded(tl) ==
    \E i \in DOMAIN tl : tl[i].type = "tool_call" /\ readThrows(tl[i].data)

\* toolCalls.map(tc => { const data = tc.data; if (!data) return null;
\* return data.tool || data.state?.tool || null; }): data.tool is read only
\* when data is set
toolsUsedThrows(tl) ==
    \E i \in DOMAIN tl :
        tl[i].type = "tool_call" /\ ~(tl[i].data = Null) /\ readThrows(tl[i].data)

\* BehaviorEvaluator.evaluate(timeline, sessionInfo); at is what Date.now()
\* returns during the call
evaluateBehavior(b, tl, at) ==
    LET outcomes == behaviorOutcomes(b, tl, at)
        checks == Concat([i \in DOMAIN outcomes |-> outcomes[i].checks])
        violations == Concat([i \in DOMAIN outcomes |-> outcomes[i].violations])
        passedChecks == Len(SelectSeq(checks, LAMBDA c : c.passed))
    IN  IF toolsUsedThrows(tl) THEN Thrown
        ELSE
        buildResult("behavior", checks, violations,
                    <<[type |-> "behavior-summary", totalChecks |-> Len(checks),
                       passedChecks |-> passedChecks,
                       failedChecks |-> Len(checks) - passedChecks]>>,
                    [toolCallCount |-> Len(getToolCalls(tl))])

BehaviorEventKinds == {"read-context", "read-file", "write", "bash", "task", "state-tool",
                       "null-data", "ask", "say"}

\* the readings of Date.now() during a run
Clock == {1, 2}

BehaviorInit ==
    /\ behavior \in BehaviorExpectations
    /\ \E kinds \in SeqsUpTo(BehaviorEventKinds, MaxEvents) :
          evalTimeline = TimelineOfKinds(kinds)
    /\ now = 1
    /\ evalResults = <<>>

\* evaluator.evaluate(timeline, sessionInfo) on a BehaviorEvaluator; a test calls
\* it up to two times on the same timeline
EvaluateBehavior ==
    /\ Len(evalResults) < 2
    /\ evalResults' = Append(evalResults, evaluateBehavior(behavior, evalTimeline, now))
    /\ UNCHANGED <<behavior, evalTimeline, now>>
    /\ UNCHANGED outsideEvaluators

\* time passes between two calls
Tick ==
    /\ Len(evalResults) = 1
    /\ now + 1 \in Clock
    /\ now' = now + 1
    /\ UNCHANGED <<behavior, evalTimeline, evalResults>>
    /\ UNCHANGED outsideEvaluators

InitBehavior == RunnerIdle /\ TimelineIdle /\ DetectorIdle /\ BehaviorInit /\ HarnessIdle

NextBehavior == EvaluateBehavior \/ Tick

SpecBehavior == InitBehavior /\ [][NextBehavior]_vars

\* C12: two calls of the same evaluator's evaluate on the same timeline and
\* session info return the same passed flag, the same score and the same
\* violations, equal in every field of every violation.
C12_RepeatedEvaluateIdentical ==
    Len(evalResults) = 2
    => /\ evalResults[1].passed = evalResults[2].passed
       /\ evalResults[1].score = evalResults[2].score
       /\ evalResults[1].violations = evalResults[2].violations

\* the constraints a BehaviorExpectation can declare
Constraints == {"mustUseTools", "mustUseAnyOf", "mustNotUseTools", "minToolCalls",
                "maxToolCalls", "requiresApproval", "requiresContext", "shouldDelegate"}

\* a constraint is declared by a non-empty list, a number or a true flag
Declared(c, b) ==
    CASE c = "mustUseTools" -> b.mustUseTools.given /\ b.mustUseTools.list # <<>>
      [] c = "mustUseAnyOf" -> b.mustUseAnyOf.given /\ b.mustUseAnyOf.list # <<>>
      [] c = "mustNotUseTools" -> b.mustNotUseTools.given /\ b.mustNotUseTools.list # <<>>
      [] c = "minToolCalls" -> b.minToolCalls # NoNumber
      [] c = "maxToolCalls" -> b.maxToolCalls # NoNumber
      [] c = "requiresApproval" -> b.requiresApproval
      [] c = "requiresContext" -> b.requiresContext
      [] c = "shouldDelegate" -> b.shouldDelegate

\* the names of the tools the tool calls of a timeline use
ToolNamesUsed(tl) ==
    {t \in {"read", "write", "edit", "bash", "task"} :
        \E i \in DOMAIN tl :
            /\ tl[i].type = "tool_call"
            /\ tl[i].data # Null
            /\ \/ tl[i].data.tool = t
               \/ tl[i].data.tool = "" /\ tl[i].data.stateTool = t}

ToolCallCount(tl) == Cardinality({i \in DOMAIN tl : tl[i].type = "tool_call"})

\* a declared constraint the timeline does not meet
Unmet(c, b, tl) ==
    /\ Declared(c, b)
    /\ CASE c = "mustUseTools" ->
              \E i \in DOMAIN b.mustUseTools.list :
                  b.mustUseTools.list[i] \notin ToolNamesUsed(tl)
         [] c = "mustUseAnyOf" ->
              \A i \in DOMAIN b.mustUseAnyOf.list :
                  \E j \in DOMAIN b.mustUseAnyOf.list[i] :
                      b.mustUseAnyOf.list[i][j] \notin ToolNamesUsed(tl)
         [] c = "mustNotUseTools" ->
              \E i \in DOMAIN b.mustNotUseTools.list :
                  b.mustNotUseTools.list[i] \in ToolNamesUsed(tl)
         [] c = "minToolCalls" -> ToolCallCount(tl) < b.minToolCalls
         [] c = "maxToolCalls" -> ToolCallCount(tl) > b.maxToolCalls
         [] c = "requiresApproval" ->
              ~ \E i \in DOMAIN tl : /\ tl[i].type = "assistant_message"
                                     /\ tl[i].data.text = ApprovalRequestText
         [] c = "requiresContext" ->
              ~ \E i \in DOMAIN tl : /\ tl[i].type = "tool_call"
                                     /\ tl[i].data # Null
                                     /\ tl[i].data.tool = "read"
                                     /\ tl[i].data.input.filePath = ContextFile
         [] c = "shouldDelegate" -> "task" \notin ToolNamesUsed(tl)

CheckName ==
    [c \in Constraints |->
        CASE c = "mustUseTools" -> "must-use-tools"
          [] c = "mustUseAnyOf" -> "must-use-any-of"
          [] c = "mustNotUseTools" -> "must-not-use-tools"
          [] c = "minToolCalls" -> "min-tool-calls"
          [] c = "maxToolCalls" -> "max-tool-calls"
          [] c = "requiresApproval" -> "requires-approval"
          [] c = "requiresContext" -> "requires-context"
          [] c = "shouldDelegate" -> "should-delegate"]

\* the violation type of each constraint; the spec's list has no name for
\* mustUseAnyOf other than missing-required-tool
ConventionalName(anyOfName) ==
    [c \in Constraints |->
        CASE c = "mustUseTools" -> "missing-required-tool"
          [] c = "mustUseAnyOf" -> anyOfName
          [] c = "mustNotUseTools" -> "forbidden-tool-used"
          [] c = "minToolCalls" -> "insufficient-tool-calls"
          [] c = "maxToolCalls" -> "excessive-tool-calls"
          [] c = "requiresApproval" -> "missing-approval-request"
          [] c = "requiresContext" -> "missing-context-loading"
          [] c = "shouldDelegate" -> "missing-delegation"]

OneCheckAndNamedViolation(result, names, severityOf) ==
    \A c \in Constraints :
        /\ Declared(c, behavior)
           => Cardinality({i \in DOMAIN result.checks :
                              result.checks[i].name = CheckName[c]}) = 1
        /\ Unmet(c, behavior, evalTimeline)
           => \E i \in DOMAIN result.violations :
                  /\ result.violations[i].type = names[c]
                  /\ result.violations[i].severity = severityOf[c]

\* C13, as amended: every declared constraint yields exactly one check, and
\* every declared constraint that is not met yields a violation whose type is
\* the conventional name for that constraint (missing-required-tool-set for
\* mustUseAnyOf); its severity is error, except that excessive-tool-calls and
\* missing-delegation have severity warning.
C13_OneCheckAndViolationPerConstraint ==
    \A k \in DOMAIN evalResults :
        OneCheckAndNamedViolation(
            evalResults[k], ConventionalName("missing-required-tool-set"),
            [c \in Constraints |->
                IF c \in {"maxToolCalls", "shouldDelegate"} THEN "warning" ELSE "error"])

\* C13, as stated: every unmet declared constraint yields a violation of
\* severity error with one of the seven conventional names.
C13_EveryUnmetConstraintIsAnError ==
    \A k \in DOMAIN evalResults :
        OneCheckAndNamedViolation(
            evalResults[k], ConventionalName("missing-required-tool"),
            [c \in Constraints |-> "error"])

C13_Witness ==
    /\ evalResults # <<>>
    /\ Unmet("maxToolCalls", behavior, evalTimeline)
    /\ Unmet("mustUseAnyOf", behavior, evalTimeline)
    /\ Unmet("mustUseTools", behavior, evalTimeline)
    /\ Len(evalResults[1].checks) = 3

ReportsViolation(result, type, tool) ==
    \E i \in DOMAIN result.violations :
        /\ result.violations[i].type = type
        /\ result.violations[i].evidence.tool = tool

\* C14: the evaluator reports missing-required-tool for tool t exactly when t is
\* listed in mustUseTools and no tool call uses t, and forbidden-tool-used for t
\* exactly when t is listed in mustNotUseTools and some tool call uses t; when
\* neither occurs and no other constraint is declared, the result has passed =
\* true and no violations.
C14_RequiredAndForbiddenTools ==
    \A k \in DOMAIN evalResults :
        LET result == evalResults[k]
            used == ToolNamesUsed(evalTimeline)
            missing == {t \in {"read", "write", "edit", "bash", "task"} :
                           /\ behavior.mustUseTools.given
                           /\ InSeq(t, behavior.mustUseTools.list)
                           /\ t \notin used}
            forbidden == {t \in {"read", "write", "edit", "bash", "task"} :
                             /\ behavior.mustNotUseTools.given
                             /\ InSeq(t, behavior.mustNotUseTools.list)
                             /\ t \in used}
        IN  /\ \A t \in {"read", "write", "edit", "bash", "task"} :
                  /\ ReportsViolation(result, "missing-required-tool", t) <=> t \in missing
                  /\ ReportsViolation(result, "forbidden-tool-used", t) <=> t \in forbidden
            /\ (/\ missing = {}
                /\ forbidden = {}
                /\ \A c \in Constraints \ {"mustUseTools", "mustNotUseTools"} :
                       ~Declared(c, behavior))
               => result.passed /\ result.violations = <<>>

C14_Witness ==
    /\ evalResults # <<>>
    /\ ReportsViolation(evalResults[1], "missing-required-tool", "write")
    /\ ReportsViolation(evalResults[1], "forbidden-tool-used", "bash")
    /\ ReportsViolation(evalResults[1], "forbidden-tool-used", "edit")

----------------------------------------------------------------------------
(* The rule evaluators: approval-gate, context-loading, stop-on-failure,   *)
(* tool-usage and delegation                                                *)

\* events after the first user message in a timeline handed to a rule evaluator
MaxRuleEvents == 3

\* indices of the tool calls of a timeline that use one of these tools
callsOf(tl, tools) ==
    {i \in DOMAIN tl : tl[i].type = "tool_call" /\ dataTool(tl[i]) \in tools}

\* BaseEvaluator.getExecutionTools(timeline), as indices
executionCalls(tl) == callsOf(tl, executionTools)

\* tool calls that modify files
modifyingCalls(tl) == callsOf(tl, {"write", "edit"})

eventText(event) == IF event.data = Null THEN "" ELSE event.data.text

\* data.input?.command
inputCommand(event) ==
    IF event.data = Null THEN ""
    ELSE IF event.data.input = Null THEN ""
    ELSE event.data.input.command

\* the violations of the calls in a set of indices, in timeline order
RECURSIVE violationsAt(_, _, _, _, _)
violationsAt(tl, indices, from, type, severity) ==
    IF from > Len(tl) THEN <<>>
    ELSE (IF from \in indices
          THEN <<createViolation(type, severity, <<type, dataTool(tl[from])>>,
                                 tl[from].timestamp,
                                 ViolationData(dataTool(tl[from]), -1, from))>>
          ELSE <<>>)
         \o violationsAt(tl, indices, from + 1, type, severity)

\* an assistant message with approval-request phrasing, then a user message,
\* both before the call at index i
approvedBefore(tl, i) ==
    \E a \in 1..(i - 1) : \E u \in (a + 1)..(i - 1) :
        /\ tl[a].type = "assistant_message"
        /\ containsApprovalLanguage(eventText(tl[a]))
        /\ tl[u].type = "user_message"

\* ApprovalGateEvaluator: one missing-approval error for each execution-class
\* tool call without a preceding approval
approvalGateChecks(tl) ==
    LET unapproved == {i \in executionCalls(tl) : ~approvedBefore(tl, i)}
    IN  Outcome(<<Check("approval-before-execution", unapproved = {}, 100)>>,
                violationsAt(tl, unapproved, 1, "missing-approval", "error"))

\* the category of a guidance file, and the category a task type asks for ("" when
\* any guidance file will do)
contextCategory(filePath) ==
    IF filePath = ContextFile THEN "code"
    ELSE IF filePath = DocsContextFile THEN "docs"
    ELSE ""
expectedCategory(t) == IF t \in {"code", "docs", "tests", "review"} THEN t ELSE ""

\* ContextLoadingEvaluator: the first guidance-file read against the first
\* execution-class tool call
contextLoadingChecks(tl, t) ==
    LET contextReads == {i \in callsOf(tl, readTools) :
                            matchesContextPatterns(inputFilePath(tl[i]))}
        execs == executionCalls(tl)
        firstExec == CHOOSE i \in execs : \A j \in execs : i <= j
        before == {i \in contextReads : i < firstExec}
        after == {i \in contextReads : i > firstExec}
        firstRead == CHOOSE i \in before : \A j \in before : i <= j
    IN  IF execs = {} THEN NoOutcome
        ELSE IF before = {}
        THEN Outcome(<<Check("context-loaded-before-execution", FALSE, 100)>>,
                     violationsAt(tl, {firstExec}, 1, "no-context-loaded", "warning")
                     \o (IF after = {} THEN <<>>
                         ELSE violationsAt(tl, {firstExec}, 1,
                                           "context-loaded-after-execution", "warning")))
        ELSE IF /\ expectedCategory(t) # ""
                /\ \A i \in before :
                      contextCategory(inputFilePath(tl[i])) # expectedCategory(t)
        THEN Outcome(<<Check("context-loaded-before-execution", FALSE, 100)>>,
                     violationsAt(tl, {firstRead}, 1, "wrong-context-file", "error"))
        ELSE Outcome(<<Check("context-loaded-before-execution", TRUE, 100)>>, <<>>)

\* an assistant message that reports a failure
reportsFailure(text) == text = FailureReportText

\* StopOnFailureEvaluator: a modifying tool call after a failed tool call with
\* no assistant message reporting the failure in between
stopOnFailureChecks(tl) ==
    LET failed == {i \in DOMAIN tl : /\ tl[i].type = "tool_call"
                                     /\ tl[i].data # Null
                                     /\ tl[i].data.error}
        autoFixes == {j \in modifyingCalls(tl) :
                         \E i \in failed :
                             /\ i < j
                             /\ ~ \E m \in (i + 1)..(j - 1) :
                                    /\ tl[m].type = "assistant_message"
                                    /\ reportsFailure(eventText(tl[m]))}
    IN  Outcome(<<Check("stop-on-failure", autoFixes = {}, 100)>>,
                violationsAt(tl, autoFixes, 1, "auto-fix-without-approval", "error"))

\* shell commands for which a structured tool exists
matchesBashAntipattern(command) == command \in {"cat file.txt", "ls -la"}

\* ToolUsageEvaluator: one bash-antipattern error for each matching bash call
toolUsageChecks(tl) ==
    LET antipatterns == {i \in callsOf(tl, {"bash"}) :
                            matchesBashAntipattern(inputCommand(tl[i]))}
    IN  Outcome(<<Check("tool-usage", antipatterns = {}, 100)>>,
                violationsAt(tl, antipatterns, 1, "bash-antipattern", "error"))

\* files touched before delegation is expected
delegationThreshold == 4

\* DelegationEvaluator: missing-delegation when file-touching calls reach the
\* threshold and no task call occurs
delegationChecks(tl) ==
    LET touches == Cardinality(modifyingCalls(tl))
    IN  IF touches < delegationThreshold THEN NoOutcome
        ELSE IF callsOf(tl, {"task"}) # {}
        THEN Outcome(<<Check("delegation", TRUE, 100)>>, <<>>)
        ELSE Outcome(<<Check("delegation", FALSE, 100)>>,
                     <<createViolation("missing-delegation", "warning",
                                       <<"missing-delegation", "">>, 0,
                                       ViolationData("", delegationThreshold, touches))>>)

\* the checks of a rule evaluator on a timeline of task type t
ruleChecks(name, tl, t) ==
    LET outcome == CASE name = "approval-gate" -> approvalGateChecks(tl)
                     [] name = "context-loading" -> contextLoadingChecks(tl, t)
                     [] name = "stop-on-failure" -> stopOnFailureChecks(tl)
                     [] name = "tool-usage" -> toolUsageChecks(tl)
                     [] name = "delegation" -> delegationChecks(tl)
    IN  buildResult(name, outcome.checks, outcome.violations, <<>>, Null)

\* evaluate(timeline, sessionInfo) of a rule evaluator
evaluateRule(name, msg, tl) ==
    evaluate(name, msg, tl, ruleChecks(name, tl, detectTaskType(msg, tl)))

\* the first user message of a session, as an event
firstUserMessage == TimelineEvent("user_message", 0, TextData("the request"))

\* the requests of the sessions handed to the rule evaluators; <<>> is a
\* timeline without a user message
SampleRequests == {<<>>, <<"create", "function">>, <<"update", "docs">>}

RuleEventKinds == {"read-context", "read-docs-context", "read-file", "write", "bash",
                   "bash-cat", "bash-ls", "bash-failed", "ask", "say", "report", "user",
                   "null-data", "null-tool", "nan-read"}

\* the rule evaluators whose checks the tests exercise
RuleNames == {"approval-gate", "context-loading", "stop-on-failure", "tool-usage",
              "delegation"}

\* the expectations a BehaviorEvaluator is constructed with in these sessions
NoExpectations ==
    [mustUseTools |-> NoList, mustUseAnyOf |-> NoList, mustNotUseTools |-> NoList,
     minToolCalls |-> NoNumber, maxToolCalls |-> NoNumber, requiresApproval |-> FALSE,
     requiresContext |-> FALSE, shouldDelegate |-> FALSE]
SampleExpectations ==
    { NoExpectations,
      [NoExpectations EXCEPT !.minToolCalls = 2],
      [NoExpectations EXCEPT !.mustNotUseTools = List(<<"bash", "edit">>),
                             !.maxToolCalls = 1],
      [NoExpectations EXCEPT !.mustUseTools = List(<<"read", "write">>),
                             !.requiresApproval = TRUE,
                             !.requiresContext = TRUE] }

RulesInit ==
    /\ userMessage \in SampleRequests
    /\ sessionTimeline = <<>>
    /\ taskType = ""
    /\ evaluation = Null
    /\ applicability = Null
    /\ behavior = Null
    /\ \E kinds \in SeqsUpTo(RuleEventKinds, MaxRuleEvents) :
          evalTimeline = (IF userMessage = <<>> THEN <<>> ELSE <<firstUserMessage>>)
                         \o TimelineOfKinds(kinds)
    /\ now = 1
    /\ evalResults = <<>>

\* evaluator.evaluate(timeline, sessionInfo) on a rule evaluator
EvaluateRule(name) ==
    /\ evalResults = <<>>
    /\ taskType' = detectTaskType(userMessage, evalTimeline)
    /\ evalResults' = <<evaluateRule(name, userMessage, evalTimeline)>>
    /\ UNCHANGED <<userMessage, sessionTimeline, evaluation, applicability>>
    /\ UNCHANGED <<behavior, evalTimeline, now>>
    /\ UNCHANGED <<runnerVars, timelineVars, testVars, serverVars>>

\* new BehaviorEvaluator(b).evaluate(timeline, sessionInfo)
EvaluateDeclaredBehavior(b) ==
    /\ evalResults = <<>>
    /\ behavior' = b
    /\ taskType' = detectTaskType(userMessage, evalTimeline)
    /\ evalResults' = <<evaluateBehavior(b, evalTimeline, now)>>
    /\ UNCHANGED <<userMessage, sessionTimeline, evaluation, applicability>>
    /\ UNCHANGED <<evalTimeline, now>>
    /\ UNCHANGED <<runnerVars, timelineVars, testVars, serverVars>>

InitRules == RunnerIdle /\ TimelineIdle /\ RulesInit /\ HarnessIdle

NextRules ==
    \/ \E name \in RuleNames : EvaluateRule(name)
    \/ \E b \in SampleExpectations : EvaluateDeclaredBehavior(b)

SpecRules == InitRules /\ [][NextRules]_vars

\* the result of the evaluator of this name, once it has evaluated
Evaluated(name) == evalResults # <<>> /\ evalResults[1].evaluator = name

\* the tool calls at which the result reports a violation of this type
ViolationsAt(result, type) ==
    {result.violations[k].evidence.actual :
        k \in {v \in DOMAIN result.violations : result.violations[v].type = type}}

GuidanceReads(tl) ==
    {i \in DOMAIN tl : /\ tl[i].type = "tool_call"
                       /\ tl[i].data # Null
                       /\ tl[i].data.tool \in {"read", "glob", "grep", "list"}
                       /\ tl[i].data.input # Null
                       /\ tl[i].data.input.filePath \in {ContextFile, DocsContextFile}}
ExecutionCalls(tl) ==
    {i \in DOMAIN tl : /\ tl[i].type = "tool_call"
                       /\ tl[i].data # Null
                       /\ tl[i].data.tool \in {"write", "edit", "bash", "task"}}
IsFirst(i, indices) == i \in indices /\ \A j \in indices : i <= j

\* the guidance file at index i is of the category the task type asks for
MatchingCategory(tl, i, t) ==
    \/ t = "code" /\ tl[i].data.input.filePath = ContextFile
    \/ t = "docs" /\ tl[i].data.input.filePath = DocsContextFile
    \/ t \notin {"code", "docs", "tests", "review"}

ReportsType(result, type) ==
    \E k \in DOMAIN result.violations : result.violations[k].type = type

FailedCalls(tl) ==
    {i \in DOMAIN tl : tl[i].type = "tool_call" /\ tl[i].data # Null /\ tl[i].data.error}
ModifyingCalls(tl) ==
    {i \in DOMAIN tl : /\ tl[i].type = "tool_call"
                       /\ tl[i].data # Null
                       /\ tl[i].data.tool \in {"write", "edit"}}
AssistantBetween(tl, i, j, texts) ==
    \E m \in (i + 1)..(j - 1) :
        tl[m].type = "assistant_message" /\ tl[m].data.text \in texts

ReportsError(result, type) ==
    \E k \in DOMAIN result.violations :
        result.violations[k].type = type /\ result.violations[k].severity = "error"

AntipatternCalls(tl) ==
    {i \in DOMAIN tl : /\ tl[i].type = "tool_call"
                       /\ tl[i].data # Null
                       /\ tl[i].data.tool = "bash"
                       /\ tl[i].data.input # Null
                       /\ tl[i].data.input.command \in {"cat file.txt", "ls -la"}}

NoToolCalls(tl) == \A i \in DOMAIN tl : tl[i].type # "tool_call"

Malformed(event) ==
    \/ event.data = Null
    \/ event.type = "tool_call" /\ event.data.tool = ""
    \/ event.type = "tool_call" /\ event.data.input = Null
    \/ event.timestamp = NaN

----------------------------------------------------------------------------
(* Error handling of the EvaluatorRunner, under Spec                        *)

\* C21: for a session whose metadata resolves, runAll returns a complete
\* AggregatedResult even when an evaluator's evaluate throws: once an
\* evaluator has been invoked the call does not reject, and the only error a
\* call surfaces is the one identifying the session as unresolvable.
C21_EvaluatorThrowDoesNotSurface ==
    /\ evalLog # <<>> => pc # "rejected"
    /\ (pc = "rejected" /\ evalLog # <<>>) => error = "Session not found"

\* what an evaluator that breaks its contract may resolve with: a result
\* without score, or without violations
MalformedResults(name) ==
    [evaluator : {name}, passed : BOOLEAN,
     violations : SeqsUpTo({Violation(name, s) : s \in Severities}, MaxViolations),
     evidence : {<<[type |-> name]>>}]
    \cup [evaluator : {name}, passed : BOOLEAN, score : ScoreSamples,
          evidence : {<<[type |-> name]>>}]

\* the runner with evaluators that may return malformed results
NextMalformed ==
    \/ \E name \in EvaluatorPool : Register(name)
    \/ \E name \in EvaluatorPool : Unregister(name)
    \/ \E sid \in SessionIds, names \in NameOptions : RunEvaluators(sid, names)
    \/ SessionInfoResolved
    \/ TimelineResolved
    \/ \E result \in UNION {EvaluationResults(n) \cup MalformedResults(n) : n \in EvaluatorPool} :
          EvaluateResolved(result)
    \/ EvaluateRejected

SpecMalformed == Init /\ [][NextMalformed]_vars

IsMalformed(result) == Lacks(result, "score") \/ Lacks(result, "violations")

\* C22: when an evaluator returns a result that lacks score or violations,
\* aggregation rejects that result with an explicit error; no AggregatedResult
\* is ever returned whose overallScore is NaN.
C22_MalformedResultRejected ==
    /\ (/\ results # <<>>
        /\ Len(results) = Len(evaluatorsToRun)
        /\ \E i \in DOMAIN results : IsMalformed(results[i]))
       => pc = "rejected"
    /\ pc = "resolved" => returned.overallScore # NaN

----------------------------------------------------------------------------
(* TestRunner: runTest and evaluateResult                                   *)

\* permission requests the agent raises during one test
MaxPermissions == 2

\* a violation type and a rule pattern as their hyphen-separated words;
\* type.toLowerCase().includes(pattern.toLowerCase()) is then the occurrence
\* of the pattern's words as consecutive words of the type
hyphenWords ==
    ("missing-approval" :> <<"missing", "approval">>)
    @@ ("no-context-loaded" :> <<"no", "context", "loaded">>)
    @@ ("missing-delegation" :> <<"missing", "delegation">>)
    @@ ("bash-antipattern" :> <<"bash", "antipattern">>)
    @@ ("missing-required-tool" :> <<"missing", "required", "tool">>)
    @@ ("missing-context" :> <<"missing", "context">>)
    @@ ("suboptimal-tool" :> <<"suboptimal", "tool">>)
    @@ ("approval" :> <<"approval">>)
    @@ ("context" :> <<"context">>)
    @@ ("delegation" :> <<"delegation">>)
    @@ ("tool" :> <<"tool">>)
    @@ ("stop" :> <<"stop">>)
    @@ ("failure" :> <<"failure">>)
    @@ ("cleanup" :> <<"cleanup">>)
    @@ ("confirm" :> <<"confirm">>)
    @@ ("approval-gate" :> <<"approval", "gate">>)
    @@ ("context-loading" :> <<"context", "loading">>)
    @@ ("tool-usage" :> <<"tool", "usage">>)
    @@ ("behavior" :> <<"behavior">>)

includes(type, pattern) ==
    LET t == hyphenWords[type]
        q == hyphenWords[pattern]
    IN  \E from \in 1..(Len(t) - Len(q) + 1) : SubSeq(t, from, from + Len(q) - 1) = q

\* const rulePatterns; a rule without an entry is its own pattern
rulePatterns(rule) ==
    CASE rule = "approval-gate" -> {"approval", "missing-approval"}
      [] rule = "context-loading" -> {"context", "no-context-loaded", "missing-context"}
      [] rule = "delegation" -> {"delegation", "missing-delegation"}
      [] rule = "tool-usage" -> {"tool", "suboptimal-tool"}
      [] rule = "stop-on-failure" -> {"stop", "failure"}
      [] rule = "confirm-cleanup" -> {"cleanup", "confirm"}
      [] OTHER -> {rule}

\* evaluation.allViolations.filter(v => patterns.some(pattern => v.type includes pattern))
actualViolations(agg, rule) ==
    SelectSeq(agg.allViolations,
              LAMBDA v : \E pattern \in rulePatterns(rule) : includes(v.type, pattern))

\* the loop over expectedViolations from index k on: whether it returns false,
\* and the violation types it marks as expected
RECURSIVE checkExpectedViolations(_, _, _)
checkExpectedViolations(expectedViolations, agg, k) ==
    IF k > Len(expectedViolations) THEN [failed |-> FALSE, expectedTypes |-> {}]
    ELSE LET actual == actualViolations(agg, expectedViolations[k].rule)
             rest == checkExpectedViolations(expectedViolations, agg, k + 1)
         IN  IF expectedViolations[k].shouldViolate
             THEN IF Len(actual) = 0 THEN [failed |-> TRUE, expectedTypes |-> {}]
                  ELSE [failed |-> rest.failed,
                        expectedTypes |-> {actual[i].type : i \in DOMAIN actual}
                                          \cup rest.expectedTypes]
             ELSE IF Len(actual) > 0 THEN [failed |-> TRUE, expectedTypes |-> {}]
                  ELSE rest

\* testCase.expected: absent, or with pass true, false or undefined
NoExpected == [given |-> FALSE, pass |-> "undefined"]
Expected(pass) == [given |-> TRUE, pass |-> pass]

\* TestRunner.evaluateResult(testCase, events, errors, evaluation); the
\* deprecated expected.minMessages, maxMessages and violations are undefined
\* in the test cases considered, so events is not read
evaluateResult(tc, errs, agg) ==
    LET hasEvaluation == agg # Null
        behaviorResults ==
            SelectSeq(agg.evaluatorResults, LAMBDA r : r.evaluator = "behavior")
        expectedCheck ==
            IF tc.expectedViolations.given /\ hasEvaluation
            THEN checkExpectedViolations(tc.expectedViolations.list, agg, 1)
            ELSE [failed |-> FALSE, expectedTypes |-> {}]
        unexpectedErrors ==
            SelectSeq(agg.allViolations,
                      LAMBDA v : v.severity = "error" /\ v.type \notin expectedCheck.expectedTypes)
    IN  IF Len(errs) > 0 /\ ~(tc.expected.given /\ tc.expected.pass = "false") THEN FALSE
        ELSE IF /\ tc.behavior /\ hasEvaluation /\ Len(behaviorResults) > 0
                /\ \/ ~behaviorResults[1].passed
                   \/ \E i \in DOMAIN behaviorResults[1].violations :
                         behaviorResults[1].violations[i].severity = "error"
        THEN FALSE
        ELSE IF expectedCheck.failed THEN FALSE
        ELSE IF /\ tc.expected.given /\ tc.expected.pass = "true" /\ hasEvaluation
                /\ agg.violationsBySeverity["error"] > 0
        THEN FALSE
        ELSE IF tc.expected.given /\ tc.expected.pass # "undefined"
        THEN (IF tc.expected.pass = "true" THEN Len(errs) = 0 ELSE TRUE)
        ELSE IF /\ hasEvaluation /\ agg.violationsBySeverity["error"] > 0
                /\ Len(unexpectedErrors) > 0
        THEN FALSE
        ELSE Len(errs) = 0

\* the evaluators TestRunner.start() hands to its EvaluatorRunner
startEvaluators == <<"approval-gate", "context-loading", "delegation", "tool-usage">>

\* AutoApproveStrategy / AutoDenyStrategy . shouldApprove(event)
shouldApprove(strategy) == strategy = "auto-approve"

TestCases ==
    [behavior : BOOLEAN,
     expectedViolations :
        {NoList,
         List(<<[rule |-> "approval-gate", shouldViolate |-> TRUE]>>),
         List(<<[rule |-> "tool-usage", shouldViolate |-> FALSE]>>)},
     expected : {NoExpected, Expected("true"), Expected("false")},
     approvalStrategy : {"auto-approve", "auto-deny", "unknown"}]

\* what an evaluator of the test runner resolves with: a clean pass, or a
\* failure with one error violation of its own type
violationTypeOf(name) ==
    CASE name = "approval-gate" -> "missing-approval"
      [] name = "context-loading" -> "no-context-loaded"
      [] name = "delegation" -> "missing-delegation"
      [] name = "tool-usage" -> "bash-antipattern"
      [] name = "behavior" -> "missing-required-tool"
resultOf(name, violates) ==
    [evaluator |-> name, passed |-> ~violates, score |-> IF violates THEN 0 ELSE 100,
     violations |-> IF violates THEN <<Violation(violationTypeOf(name), "error")>> ELSE <<>>,
     evidence |-> <<>>]

\* the AggregatedResults runAll may resolve with for a registry
Evaluations(reg) ==
    {aggregateResults("ses_1", getSessionInfo("ses_1"),
                      [i \in DOMAIN reg |-> resultOf(reg[i], reg[i] \in violating)]) :
        violating \in SUBSET {"approval-gate", "tool-usage", "behavior"}}

TestResult(passed, errs, approvals, agg) ==
    [passed |-> passed, errors |-> errs, approvalsGiven |-> approvals, evaluation |-> agg]

\* the variables of a runEvaluators call, which runTest awaits as a whole
runnerCallVars == <<pc, sessionId, evaluatorNames, sessionInfo, timeline, timelineBuilds,
                    evaluatorsToRun, results, evalLog, returned, error>>
outsideTestRunner == <<runnerCallVars, timelineVars, detectorVars, evaluatorVars, serverVars>>

TestRunnerInit ==
    /\ client = FALSE
    /\ runEvaluatorsOn \in BOOLEAN
    /\ testCase = Null
    /\ testPc = "idle"
    /\ errors = <<>>
    /\ approvalsGiven = 0
    /\ approvedCount = 0
    /\ testEvaluation = Null
    /\ testResult = Null

NoTestInFlight == testPc \in {"idle", "returned", "not-started"}

\* TestRunner.start(): the server is up, the client, the event handler and
\* (when runEvaluators is set) a fresh EvaluatorRunner are created
StartTestRunner ==
    /\ ~client
    /\ NoTestInFlight
    /\ client' = TRUE
    /\ registry' = IF runEvaluatorsOn THEN startEvaluators ELSE registry
    /\ UNCHANGED <<runEvaluatorsOn, testCase, testPc, errors, approvalsGiven, approvedCount,
                   testEvaluation, testResult>>
    /\ UNCHANGED outsideTestRunner

\* TestRunner.stop()
StopTestRunner ==
    /\ client
    /\ NoTestInFlight
    /\ client' = FALSE
    /\ UNCHANGED <<registry, runEvaluatorsOn, testCase, testPc, errors, approvalsGiven,
                   approvedCount, testEvaluation, testResult>>
    /\ UNCHANGED outsideTestRunner

\* the catch block of runTest: the failure is recorded and a failed result returned
failedResult(errs, message, approvals) ==
    TestResult(FALSE, Append(errs, message), approvals, Null)

\* runTest(testCase) is called: it throws when the runner was not started;
\* otherwise it creates the approval strategy (an unknown type throws into the
\* catch block), installs the handlers and sends the prompt
RunTest(tc) ==
    /\ NoTestInFlight
    /\ testCase' = tc
    /\ errors' = <<>>
    /\ approvalsGiven' = 0
    /\ approvedCount' = 0
    /\ testEvaluation' = Null
    /\ IF ~client
       THEN testPc' = "not-started" /\ testResult' = Null
       ELSE IF tc.approvalStrategy = "unknown"
       THEN /\ testPc' = "returned"
            /\ testResult' = failedResult(<<>>, "Test execution failed: Unknown approval strategy", 0)
       ELSE testPc' = "prompting" /\ testResult' = Null
    /\ UNCHANGED <<client, runEvaluatorsOn, registry>>
    /\ UNCHANGED outsideTestRunner

\* eventHandler.onPermission callback: the strategy decides, the counter is
\* incremented
PermissionRequested ==
    /\ testPc = "prompting"
    /\ approvalsGiven < MaxPermissions
    /\ approvalsGiven' = approvalsGiven + 1
    /\ approvedCount' = approvedCount + (IF shouldApprove(testCase.approvalStrategy) THEN 1 ELSE 0)
    /\ UNCHANGED <<client, runEvaluatorsOn, registry, testCase, testPc, errors,
                   testEvaluation, testResult>>
    /\ UNCHANGED outsideTestRunner

\* startListening() rejects while the handler is still listening
EventStreamError ==
    /\ testPc = "prompting"
    /\ errors = <<>>
    /\ errors' = Append(errors, "Event stream error")
    /\ UNCHANGED <<client, runEvaluatorsOn, registry, testCase, testPc, approvalsGiven,
                   approvedCount, testEvaluation, testResult>>
    /\ UNCHANGED outsideTestRunner

PromptFailedRethrows(message) ==
    /\ testPc = "prompting"
    /\ testPc' = "rejected"
    /\ UNCHANGED <<client, runEvaluatorsOn, registry, testCase, errors, approvalsGiven,
                   approvedCount, testEvaluation, testResult>>
    /\ UNCHANGED outsideTestRunner

\* createSession or sendPrompt rejects, or withTimeout times the prompt out:
\* the catch block returns a failed result
PromptFailed(message) ==
    /\ testPc = "prompting"
    /\ testPc' = "returned"
    /\ testResult' = failedResult(errors, message, approvalsGiven)
    /\ errors' = Append(errors, message)
    /\ UNCHANGED <<client, runEvaluatorsOn, registry, testCase, approvalsGiven,
                   approvedCount, testEvaluation>>
    /\ UNCHANGED outsideTestRunner

\* the prompt completes; without evaluators the result is decided at once,
\* otherwise the behavior evaluator is registered when the test case declares
\* behavior and runAll is awaited
PromptCompleted ==
    /\ testPc = "prompting"
    /\ IF runEvaluatorsOn
       THEN /\ registry' = IF testCase.behavior THEN register(registry, "behavior")
                           ELSE registry
            /\ testPc' = "runAll"
            /\ UNCHANGED testResult
       ELSE /\ testPc' = "returned"
            /\ testResult' = TestResult(evaluateResult(testCase, errors, Null), errors,
                                        approvalsGiven, Null)
            /\ UNCHANGED registry
    /\ UNCHANGED <<client, runEvaluatorsOn, testCase, errors, approvalsGiven, approvedCount,
                   testEvaluation>>
    /\ UNCHANGED outsideTestRunner

\* runAll resolves: the behavior evaluator is unregistered again and the result
\* is decided from the evaluation
RunAllResolved(agg) ==
    /\ testPc = "runAll"
    /\ agg \in Evaluations(registry)
    /\ testEvaluation' = agg
    /\ registry' = IF testCase.behavior THEN unregister(registry, "behavior") ELSE registry
    /\ testPc' = "returned"
    /\ testResult' = TestResult(evaluateResult(testCase, errors, agg), errors,
                                approvalsGiven, agg)
    /\ UNCHANGED <<client, runEvaluatorsOn, testCase, errors, approvalsGiven, approvedCount>>
    /\ UNCHANGED outsideTestRunner

\* runAll rejects: the inner catch records the error; the unregister inside the
\* try block is skipped
RunAllRejected ==
    /\ testPc = "runAll"
    /\ errors' = Append(errors, "Evaluator error")
    /\ testPc' = "returned"
    /\ testResult' = TestResult(evaluateResult(testCase, errors', Null), errors',
                                approvalsGiven, Null)
    /\ UNCHANGED <<client, runEvaluatorsOn, registry, testCase, approvalsGiven,
                   approvedCount, testEvaluation>>
    /\ UNCHANGED outsideTestRunner

InitTest ==
    RunnerIdle /\ TimelineIdle /\ DetectorIdle /\ EvaluatorsIdle /\ ServerIdle /\ TestRunnerInit

NextTest ==
    \/ StartTestRunner
    \/ StopTestRunner
    \/ \E tc \in TestCases : RunTest(tc)
    \/ PermissionRequested
    \/ EventStreamError
    \/ \E message \in {"Test execution failed: Prompt execution timed out",
                       "Test execution failed: client error"} : PromptFailed(message)
    \/ PromptCompleted
    \/ \E agg \in Evaluations(registry) : RunAllResolved(agg)
    \/ RunAllRejected

SpecTest == InitTest /\ [][NextTest]_vars

\* C23: after each runTest returns, whether its evaluation succeeded or
\* failed, no evaluator named behavior remains in the runner's registry, and a
\* test case without behavior is never evaluated by a behavior evaluator.
C23_BehaviorEvaluatorDetached ==
    /\ testPc = "returned" => ~InSeq("behavior", registry)
    /\ (testPc = "returned" /\ testEvaluation # Null /\ ~testCase.behavior)
       => \A i \in DOMAIN testEvaluation.evaluatorResults :
             testEvaluation.evaluatorResults[i].evaluator # "behavior"

EscapedMessages ==
    {"Test execution failed: Prompt execution timed out",
     "Test execution failed: client error",
     "Test execution failed: Unknown approval strategy"}
FailureMessages == EscapedMessages \cup {"Evaluator error"}

\* C27: a started runner's runTest never rejects; a prompt timeout, a client
\* error or an evaluator failure yields a returned result whose errors end with
\* the failure, and a result that records an exception caught by the outer
\* catch block has passed = false.
C27_RunTestNeverRejects ==
    /\ testPc # "rejected"
    /\ (testPc = "returned" /\ runEvaluatorsOn /\ testResult.evaluation = Null)
       => /\ testResult.errors # <<>>
          /\ testResult.errors[Len(testResult.errors)] \in FailureMessages
    /\ (testPc = "returned" /\ \E i \in DOMAIN testResult.errors :
                                  testResult.errors[i] \in EscapedMessages)
       => ~testResult.passed

C27_Witness ==
    /\ testPc = "returned"
    /\ testResult.errors = <<"Test execution failed: Prompt execution timed out">>
    /\ ~testResult.passed

\* C28: the approvalsGiven of a returned TestResult equals the number of
\* permission requests the approval strategy approved.
C28_ApprovalsGivenCountsApprovals ==
    testPc = "returned" => testResult.approvalsGiven = approvedCount

ShouldViolateRules(tc) ==
    {tc.expectedViolations.list[i].rule : i \in
        {j \in DOMAIN tc.expectedViolations.list : tc.expectedViolations.list[j].shouldViolate}}

\* C30: a returned test that declares an expected violation with
\* shouldViolate = true has passed only if its evaluation exists and holds a
\* violation matching that rule.
C30_ExpectedViolationRequiresMatch ==
    (testPc = "returned" /\ testResult.passed)
    => \A rule \in ShouldViolateRules(testCase) :
          /\ testResult.evaluation # Null
          /\ actualViolations(testResult.evaluation, rule) # <<>>

----------------------------------------------------------------------------
(* Review sessions and the context-loading rule, under SpecGating          *)

ReadOnlyReview ==
    /\ MatchesReview(userMessage)
    /\ toolsOf(sessionTimeline) # {}
    /\ toolsOf(sessionTimeline) \subseteq readTools

\* C24: for a session whose first user message contains a review verb and
\* whose tool calls are all read, glob, grep or list, the context-loading
\* evaluator is applicable and its result is not a skipped one.
C24_ReadOnlyReviewLoadsContext ==
    (evaluation # Null /\ evaluation.evaluator = "context-loading" /\ ReadOnlyReview)
    => /\ getEvaluatorApplicability("context-loading", taskType).applicable
       /\ ~evaluation.metadata.skipped

----------------------------------------------------------------------------
(* The order in which runEvaluators executes the evaluators                *)

\* Object.values(this.registry): the evaluators in their order of registration
ExecutionOrders ==
    {order \in [1..3 -> {"approval-gate", "tool-usage", "behavior"}] :
        \A i, j \in 1..3 : i # j => order[i] # order[j]}

OrderInit ==
    /\ registry \in ExecutionOrders
    /\ pc = "idle"
    /\ sessionId = ""
    /\ evaluatorNames = NamesAbsent
    /\ sessionInfo = Null
    /\ timeline = Null
    /\ timelineBuilds = 0
    /\ evaluatorsToRun = <<>>
    /\ results = <<>>
    /\ evalLog = <<>>
    /\ returned = Null
    /\ error = ""
    /\ userMessage = <<"create", "function">>
    /\ sessionTimeline = <<>>
    /\ taskType = ""
    /\ evaluation = Null
    /\ applicability = Null
    /\ behavior \in SampleExpectations
    /\ \E kinds \in SeqsUpTo(BehaviorEventKinds, MaxEvents) :
          evalTimeline = <<firstUserMessage>> \o TimelineOfKinds(kinds)
    /\ now = 1
    /\ evalResults = <<>>

\* evaluator.evaluate(timeline, sessionInfo) of the evaluator of this name at
\* the clock reading at
evaluateAt(name, at) ==
    IF name = "behavior" THEN evaluateBehavior(behavior, evalTimeline, at)
    ELSE evaluateRule(name, userMessage, evalTimeline)

orderUnchanged == <<pc, sessionId, evaluatorNames, sessionInfo, timeline, timelineBuilds,
                    evaluatorsToRun, results, evalLog, error, registry, behavior, evalTimeline>>

\* one turn of the for loop of runEvaluators: the next evaluator is awaited
EvaluateNext ==
    /\ Len(evalResults) < Len(registry)
    /\ evalResults' = Append(evalResults, evaluateAt(registry[Len(evalResults) + 1], now))
    /\ UNCHANGED <<now, returned>>
    /\ UNCHANGED orderUnchanged
    /\ UNCHANGED <<timelineVars, detectorVars, testVars, serverVars>>

\* time passes while an evaluator is awaited
OrderTick ==
    /\ evalResults # <<>>
    /\ Len(evalResults) < Len(registry)
    /\ now + 1 \in Clock
    /\ now' = now + 1
    /\ UNCHANGED <<evalResults, returned>>
    /\ UNCHANGED orderUnchanged
    /\ UNCHANGED <<timelineVars, detectorVars, testVars, serverVars>>

\* return this.aggregateResults(sessionId, sessionInfo, results)
AggregateInOrder ==
    /\ Len(evalResults) = Len(registry)
    /\ returned = Null
    /\ returned' = aggregateResults("ses_1", getSessionInfo("ses_1"), evalResults)
    /\ UNCHANGED <<now, evalResults>>
    /\ UNCHANGED orderUnchanged
    /\ UNCHANGED <<timelineVars, detectorVars, testVars, serverVars>>

InitOrder == OrderInit /\ TimelineIdle /\ HarnessIdle

NextOrder == EvaluateNext \/ OrderTick \/ AggregateInOrder

SpecOrder == InitOrder /\ [][NextOrder]_vars

\* the evaluators run in the order approval-gate, tool-usage, behavior
ReferenceOrder == <<"approval-gate", "tool-usage", "behavior">>
ReferenceVerdict ==
    aggregateResults("ses_1", getSessionInfo("ses_1"),
                     [i \in 1..3 |-> evaluateAt(ReferenceOrder[i], 1)])

\* C25: whatever the order in which the evaluators are executed, each
\* evaluator's result is the one it gives in any other order, and overallPassed,
\* overallScore, totalViolations and violationsBySeverity are the same.
C25_VerdictIndependentOfOrder ==
    returned # Null
    => /\ \A i \in DOMAIN evalResults : evalResults[i] = evaluateAt(registry[i], 1)
       /\ returned.overallPassed = ReferenceVerdict.overallPassed
       /\ returned.overallScore = ReferenceVerdict.overallScore
       /\ returned.totalViolations = ReferenceVerdict.totalViolations
       /\ returned.violationsBySeverity = ReferenceVerdict.violationsBySeverity

\* the aggregated fields alone
C25_AggregateIndependentOfOrder ==
    returned # Null
    => /\ returned.overallPassed = ReferenceVerdict.overallPassed
       /\ returned.overallScore = ReferenceVerdict.overallScore
       /\ returned.totalViolations = ReferenceVerdict.totalViolations
       /\ returned.violationsBySeverity = ReferenceVerdict.violationsBySeverity

----------------------------------------------------------------------------
(* ServerManager: start, startManual and stop                              *)

\* calls of start() and of stop() on one ServerManager
MaxStarts == 2
MaxStops == 2

\* a child process: alive, exited, or failed (spawn failed: the child emits
\* 'error' and never 'exit'); signalled once kill() reached it
ChildProcess(state) == [state |-> state, signalled |-> FALSE]

\* process.kill(signal) on the child p (0: no child); no effect on a child
\* that is not alive
kill(ps, p) ==
    IF p # 0 /\ ps[p].state = "alive" THEN [ps EXCEPT ![p].signalled = TRUE] ELSE ps

\* running()
running == isRunning

\* getUrl()
getUrl(isUp) == IF ~isUp THEN Null ELSE [url |-> "http://127.0.0.1:port"]

\* a settled promise stays settled
settle(call, outcome) ==
    IF call.settled = "pending" THEN [call EXCEPT !.settled = outcome] ELSE call

\* stop(): resolves at once without a process; otherwise it listens for the
\* 'exit' of this.process, sends SIGTERM and arms the SIGKILL timer
stopCall ==
    IF process = 0
    THEN [proc |-> 0, state |-> "resolved", running |-> running, url |-> getUrl(running),
          timer |-> FALSE]
    ELSE [proc |-> process, state |-> "pending", running |-> FALSE, url |-> Null,
          timer |-> TRUE]

\* start(): throws when the server is running, otherwise startManual spawns
\* the child and tracks it
Start ==
    /\ Len(startCalls) < MaxStarts
    /\ IF isRunning
       THEN /\ startCalls' = Append(startCalls, [proc |-> 0, resolved |-> FALSE,
                                                 timedOut |-> FALSE, settled |-> "rejected"])
            /\ UNCHANGED <<procs, process>>
       ELSE /\ \E state \in {"alive", "failed"} : procs' = Append(procs, ChildProcess(state))
            /\ process' = Len(procs) + 1
            /\ startCalls' = Append(startCalls, [proc |-> Len(procs) + 1, resolved |-> FALSE,
                                                 timedOut |-> FALSE, settled |-> "pending"])
    /\ UNCHANGED <<isRunning, stopCalls>>
    /\ UNCHANGED outsideServer

\* the child of start call c prints the listening message
Listening(c) ==
    /\ startCalls[c].proc # 0
    /\ procs[startCalls[c].proc].state = "alive"
    /\ ~startCalls[c].resolved
    /\ isRunning' = TRUE
    /\ startCalls' = [startCalls EXCEPT ![c] = settle([@ EXCEPT !.resolved = TRUE], "resolved")]
    /\ UNCHANGED <<procs, process, stopCalls>>
    /\ UNCHANGED outsideServer

\* the child of start call c emits 'error': it could not be spawned
SpawnError(c) ==
    /\ startCalls[c].proc # 0
    /\ procs[startCalls[c].proc].state = "failed"
    /\ ~startCalls[c].resolved
    /\ startCalls' = [startCalls EXCEPT ![c] = settle([@ EXCEPT !.resolved = TRUE], "rejected")]
    /\ UNCHANGED <<procs, process, isRunning, stopCalls>>
    /\ UNCHANGED outsideServer

\* the start timer of call c fires before the call resolved: stop() is called
\* and the call rejects (a failed spawn reports its 'error' before any timer)
StartTimeout(c) ==
    /\ startCalls[c].proc # 0
    /\ procs[startCalls[c].proc].state # "failed"
    /\ ~startCalls[c].resolved
    /\ ~startCalls[c].timedOut
    /\ Len(stopCalls) < MaxStops
    /\ stopCalls' = Append(stopCalls, stopCall)
    /\ procs' = kill(procs, process)
    /\ startCalls' = [startCalls EXCEPT ![c] = settle([@ EXCEPT !.timedOut = TRUE], "rejected")]
    /\ UNCHANGED <<process, isRunning>>
    /\ UNCHANGED outsideServer

\* stop() is called
Stop ==
    /\ Len(stopCalls) < MaxStops
    /\ stopCalls' = Append(stopCalls, stopCall)
    /\ procs' = kill(procs, process)
    /\ UNCHANGED <<process, isRunning, startCalls>>
    /\ UNCHANGED outsideServer

\* the SIGKILL timer of stop call k fires
ForceKill(k) ==
    /\ stopCalls[k].timer
    /\ stopCalls' = [stopCalls EXCEPT ![k].timer = FALSE]
    /\ procs' = kill(procs, process)
    /\ UNCHANGED <<process, isRunning, startCalls>>
    /\ UNCHANGED outsideServer

\* the child p exits with this code: the 'exit' listener of startManual runs,
\* then the 'exit' listener of every stop() waiting for p
ProcessExit(p, code) ==
    /\ procs[p].state = "alive"
    /\ procs' = [procs EXCEPT ![p].state = "exited"]
    /\ isRunning' = FALSE
    /\ startCalls' = [c \in DOMAIN startCalls |->
                         IF startCalls[c].proc = p /\ ~startCalls[c].resolved /\ code # 0
                         THEN settle([startCalls[c] EXCEPT !.resolved = TRUE], "rejected")
                         ELSE startCalls[c]]
    /\ process' = IF \E k \in DOMAIN stopCalls :
                        stopCalls[k].proc = p /\ stopCalls[k].state = "pending"
                  THEN 0 ELSE process
    /\ stopCalls' = [k \in DOMAIN stopCalls |->
                        IF stopCalls[k].proc = p /\ stopCalls[k].state = "pending"
                        THEN [stopCalls[k] EXCEPT !.state = "resolved", !.running = FALSE,
                                                  !.url = getUrl(FALSE)]
                        ELSE stopCalls[k]]
    /\ UNCHANGED outsideServer

InitServer ==
    RunnerIdle /\ TimelineIdle /\ DetectorIdle /\ EvaluatorsIdle /\ TestRunnerIdle /\ ServerIdle

NextServer ==
    \/ Start
    \/ \E c \in DOMAIN startCalls : Listening(c)
    \/ \E c \in DOMAIN startCalls : SpawnError(c)
    \/ \E c \in DOMAIN startCalls : StartTimeout(c)
    \/ Stop
    \/ \E k \in DOMAIN stopCalls : ForceKill(k)
    \/ \E p \in DOMAIN procs : \E code \in {0, 1} : ProcessExit(p, code)

SpecServer == InitServer /\ [][NextServer]_vars

\* C26: no call of stop() is left waiting for an 'exit' event that can no
\* longer come (its child has exited already or was never spawned), so every
\* call resolves; and a resolved call found running() false and getUrl() null.
C26_StopResolves ==
    \A k \in DOMAIN stopCalls :
        /\ stopCalls[k].state = "pending" => procs[stopCalls[k].proc].state = "alive"
        /\ stopCalls[k].state = "resolved"
           => ~stopCalls[k].running /\ stopCalls[k].url = Null

AliveProcesses == {p \in DOMAIN procs : procs[p].state = "alive"}

\* C29: at most one child spawned by the manager is alive at a time, and it
\* is the one the manager tracks in this.process.
C29_OneTrackedProcess ==
    /\ Cardinality(AliveProcesses) <= 1
    /\ \A p \in AliveProcesses : process = p

====
